---- MODULE Spec2Model ----
(***************************************************************************)
(* Model of the kiln database (src/src/database/mod.rs): the Kilns,        *)
(* Firing_sequences and Firing_steps tables of one SQLite connection and   *)
(* the KilnDatabase operations over them.  Every operation runs to         *)
(* completion on the single connection, so each is one action.             *)
(***************************************************************************)
EXTENDS Integers, Sequences, FiniteSets, TLC

\* ------------------------------------------------------------------------
\* Bounds of the model
\* ------------------------------------------------------------------------

\* Longest step list a caller hands to update_kiln_program.
MaxSteps == 2

\* Largest Firing_steps id the store hands out before the model stops
\* starting replacements that would need more.
MaxStepId == 3

\* Most programs the model creates.
MaxSequenceId == 3

\* Most projects the model creates.
MaxProjectId == 2

\* Most Project_firings rows the model inserts.
MaxFiringId == 2

\* Most Project_images rows the model inserts.
MaxImageId == 2

\* Longest step list of a KilnProgram edited in memory.
MaxLen == 3

\* Longest firing list and picture list of a KilnProject edited in memory.
MaxFirings == 2

MaxPictures == 2

\* Most rows, over all tables, the model inserts when every writer runs.
MaxRows == 4

\* Most rows, over all tables, the model inserts when it builds projects
\* whose programs have steps.
MaxAggregateRows == 6

\* Most rows, over all tables, the model inserts when it replaces the steps
\* of one program among several.
MaxFrameRows == 8

\* Most rows, over all tables, that exist when a racing creator starts.
MaxRaceRows == 5

\* Most rows, over all tables, the runs of a get_project against a writer
\* insert.
MaxTornRows == 6

\* Most steps the held programs::Program grows to.
MaxProgramSteps == 4

\* ------------------------------------------------------------------------
\* Input domains.  Names are byte strings (SQLite compares TEXT with memcmp
\* under the default BINARY collation), written as tuples of byte values.
\* ------------------------------------------------------------------------

\* "S" and "F": kiln names whose lexical order is the reverse of the order
\* the tests insert them in.
KilnNames == {<<83>>, <<70>>}

\* "B" and "AB": the longer name sorts first.
ProgNames == {<<66>>, <<65, 66>>}

Descriptions == {"d1", "d2"}

ProjectNames == {"p1", "p2"}

\* The firing comments of test add_firing_3.
Comments == {"Full fuse step", "Slump into mold"}

ImageNames == {"final.jpg"}

Captions == {"c1", "c2"}

\* Image file contents: no bytes at all, and bytes that include 0 and 255.
ImageData == {<<>>, <<255, 0>>}

\* ------------------------------------------------------------------------
\* Fixed-width integers.  A u32 is a pair <<hi, lo>> of 16-bit limbs so that
\* the whole 32-bit range is representable; an i32 is an Int.
\* ------------------------------------------------------------------------
Limb == 65536

U32(hi, lo) == <<hi, lo>>

\* `n as i32` for n : u32 (two's complement reinterpretation).
U32AsI32(n) ==
    IF n[1] >= Limb \div 2 THEN (n[1] - Limb) * Limb + n[2]
                           ELSE n[1] * Limb + n[2]

\* `r as u32` for r : i32.
I32AsU32(r) == <<(r \div Limb) % Limb, r % Limb>>

\* ------------------------------------------------------------------------
\* Value objects
\* ------------------------------------------------------------------------
AFAP == [tag |-> "AFAP"]

DegPerSec(n) == [tag |-> "DegPerSec", n |-> n]

Kiln_new(id, name, description) ==
    [id |-> id, name |-> name, description |-> description]

FiringSequence_new(id, name, description, kiln_id) ==
    [id |-> id, name |-> name, description |-> description, kiln_id |-> kiln_id]

FiringStep_new(id, sequence, rate, target, dwell) ==
    [id          |-> id,
     sequence_id |-> sequence,
     ramp_rate   |-> IF rate.tag = "DegPerSec" THEN U32AsI32(rate.n) ELSE -1,
     target_temp |-> target,
     dwell_time  |-> dwell]

\* FiringStep::ramp_rate
ramp_rate(step) ==
    IF step.ramp_rate >= 0 THEN DegPerSec(I32AsU32(step.ramp_rate)) ELSE AFAP

KilnProgram_new(kiln, sequence) ==
    [kiln |-> kiln, sequence |-> sequence, steps |-> <<>>]

add_step(program, step) ==
    [program EXCEPT !.steps = Append(@, step)]

Project_new(id, name, description) ==
    [id |-> id, name |-> name, description |-> description]

\* programs::RampRate::DegreesPerHour, programs::Step and programs::Program
\* of the library crate.  Temperatures and rates are whole degrees.
DegreesPerHour(rate) == [tag |-> "DegreesPerHour", rate |-> rate]

Step_new(target, ramp, hold) ==
    [target |-> target, ramp_rate |-> ramp, hold_time |-> hold]

Program_new(name, description) ==
    [name |-> name, description |-> description, program |-> <<>>]

Program_from_steps(name, description, program) ==
    [name |-> name, description |-> description, program |-> program]

Program_add_step(self, step) ==
    [self EXCEPT !.program = Append(@, step)]

\* add_steps putting the new steps in front of the old ones.
Program_add_steps_InFront(self, steps) ==
    [self EXCEPT !.program = steps \o @]

\* Vec::extend_from_slice.
Program_add_steps(self, steps) ==
    [self EXCEPT !.program = @ \o steps]

Program_clear(self) ==
    [self EXCEPT !.program = <<>>]

\* ProjectImage::new leaves the contents empty; set_contents fills them.
ProjectImage_new(id, project, name, description) ==
    [id          |-> id,
     project_id  |-> project,
     name        |-> name,
     description |-> description,
     contents    |-> <<>>]

set_contents(image, new_contents) == [image EXCEPT !.contents = new_contents]

KilnProject_new(project) ==
    [project         |-> project,
     firing_comments |-> <<>>,
     firings         |-> <<>>,
     pictures        |-> <<>>]

add_firing(project, firing, comment) ==
    [project EXCEPT !.firing_comments = Append(@, comment),
                    !.firings         = Append(@, firing)]

add_picture(project, picture) ==
    [project EXCEPT !.pictures = Append(@, picture)]

\* Vec::remove and Vec::insert at a 0-based index within range.
Vec_remove(v, index) == SubSeq(v, 1, index) \o SubSeq(v, index + 2, Len(v))

Vec_insert(v, index, element) ==
    SubSeq(v, 1, index) \o <<element>> \o SubSeq(v, index + 1, Len(v))

None == [some |-> FALSE]

Some(v) == [some |-> TRUE, value |-> v]

\* ------------------------------------------------------------------------
\* The store
\* ------------------------------------------------------------------------
VARIABLES
    Kilns,             \* rows [id, name, description]
    Firing_sequences,  \* rows [id, name, description, kiln_id]
    Firing_steps,      \* rows [id, sequence_id, ramp, target, hold]
    sqlite_sequence,   \* AUTOINCREMENT: largest id ever handed out, per table
    ret,               \* the last call: operation, arguments, result
    offered,           \* history: kiln names ever passed to add_kiln
    sqlite_schema,     \* the names of the tables the database file holds
    Projects,          \* rows of table Projects: id, name, description
    Project_firings,   \* rows: id, project_id, firing_sequence_id, comment
    Project_images,    \* rows: id, project_id, name, caption, contents
    kiln_program,      \* a KilnProgram a caller holds and edits in memory
    kiln_project,      \* a KilnProject a caller holds and edits in memory
    calls,             \* history: the add_project_firing and add_project_image
                       \* calls that returned Ok, oldest first
    conn,              \* per connection to the database file: the call it is
                       \* in the middle of, or the result of its last call
    lib_program        \* a programs::Program a caller holds and edits in memory

vars == <<Kilns, Firing_sequences, Firing_steps, sqlite_sequence, ret, offered,
          sqlite_schema, Projects, Project_firings, Project_images,
          kiln_program, kiln_project, calls, conn, lib_program>>

\* The connections open on the database file.
Connections == {1, 2}

\* A connection between two calls, none made yet.
Idle == [pc |-> "idle"]

\* The three project tables.
project_store == <<Projects, Project_firings, Project_images>>

\* The database file.
store == <<Kilns, Firing_sequences, Firing_steps, sqlite_sequence,
           sqlite_schema, project_store>>

\* What lives outside the database file: the objects a caller holds and the
\* calls in flight on the connections.  No whole-call action touches them.
memory == <<kiln_program, kiln_project, conn, lib_program>>

\* ------------------------------------------------------------------------
\* Schema
\* ------------------------------------------------------------------------

\* The CREATE TABLE statements of make_schema, in the order it runs them.
\* The last one has no IF NOT EXISTS.
SchemaStatements ==
    <<[table |-> "Kilns",            if_not_exists |-> TRUE],
      [table |-> "Firing_sequences", if_not_exists |-> TRUE],
      [table |-> "Firing_steps",     if_not_exists |-> TRUE],
      [table |-> "Projects",         if_not_exists |-> TRUE],
      [table |-> "Project_firings",  if_not_exists |-> TRUE],
      [table |-> "Project_images",   if_not_exists |-> FALSE]>>

\* One CREATE TABLE: an existing table is an error unless the statement says
\* IF NOT EXISTS, and is left as it is either way.
CreateTable(schema, stmt) ==
    IF stmt.table \in schema
    THEN [failed |-> ~stmt.if_not_exists, schema |-> schema]
    ELSE [failed |-> FALSE, schema |-> schema \cup {stmt.table}]

\* The statements from the n-th on; the first that fails ends the function.
RECURSIVE make_schema_from(_, _)
make_schema_from(schema, n) ==
    IF n > Len(SchemaStatements) THEN [failed |-> FALSE, schema |-> schema]
    ELSE LET done == CreateTable(schema, SchemaStatements[n])
         IN  IF done.failed THEN done
             ELSE make_schema_from(done.schema, n + 1)

make_schema(schema) == make_schema_from(schema, 1)

\* ------------------------------------------------------------------------
\* Queries
\* ------------------------------------------------------------------------

\* memcmp order of two byte strings: a < b.
RECURSIVE LexLess(_, _)
LexLess(a, b) ==
    IF a = <<>> THEN b # <<>>
    ELSE IF b = <<>> THEN FALSE
    ELSE IF a[1] # b[1] THEN a[1] < b[1]
    ELSE LexLess(Tail(a), Tail(b))

\* ORDER BY id ASC
RECURSIVE OrderById(_)
OrderById(rows) ==
    IF rows = {} THEN <<>>
    ELSE LET first == CHOOSE r \in rows : \A o \in rows : r.id <= o.id
         IN  <<first>> \o OrderById(rows \ {first})

\* A listing query without its ORDER BY name: rows come in rowid order.
OrderByName_ById(rows) == OrderById(rows)

\* ORDER BY name ASC (rows of equal name in rowid order)
RECURSIVE OrderByName(_)
OrderByName(rows) ==
    IF rows = {} THEN <<>>
    ELSE LET first == CHOOSE r \in rows : \A o \in rows \ {r} :
                          \/ LexLess(r.name, o.name)
                          \/ r.name = o.name /\ r.id < o.id
         IN  <<first>> \o OrderByName(rows \ {first})

\* A uniqueness check that never finds a row.
CountKilnsNamed_Zero(name) == 0

\* get_count with "SELECT COUNT(*) FROM Kilns WHERE name = ?"
CountKilnsNamed(name) == Cardinality({k \in Kilns : k.name = name})

\* A uniqueness check that forgets the kiln: "... WHERE name = ?".
CountSequencesNamed_Global(name, kiln_id) ==
    Cardinality({s \in Firing_sequences : s.name = name})

\* get_count with "... FROM Firing_sequences WHERE name = ? AND kiln_id = ?"
CountSequencesNamed(name, kiln_id) ==
    Cardinality({s \in Firing_sequences : s.name = name /\ s.kiln_id = kiln_id})

\* A kiln lookup without its WHERE clause: the oldest kiln, whatever its name.
get_kiln_Any(name) ==
    LET rows == OrderById(Kilns)
    IN  IF rows = <<>> THEN None
        ELSE Some(Kiln_new(rows[1].id, rows[1].name, rows[1].description))

get_kiln(name) ==
    LET rows == OrderById({k \in Kilns : k.name = name})
    IN  IF rows = <<>> THEN None
        ELSE Some(Kiln_new(rows[1].id, rows[1].name, rows[1].description))

list_kilns ==
    LET rows == OrderByName(Kilns)
    IN  [i \in DOMAIN rows |-> rows[i].name]

\* The listing without its join to Kilns: the programs of every kiln.
list_kiln_programs_AllKilns(kiln) ==
    LET rows == OrderByName(Firing_sequences)
    IN  [i \in DOMAIN rows |-> rows[i].name]

list_kiln_programs(kiln) ==
    LET rows == OrderByName({s \in Firing_sequences :
                    \E k \in Kilns : k.id = s.kiln_id /\ k.name = kiln})
    IN  [i \in DOMAIN rows |-> rows[i].name]

\* The second query of get_kiln_program: the steps of one sequence, oldest
\* id first, each row deserialized into a FiringStep.
StepsIn(table, sequence_id) ==
    LET rows == OrderById({r \in table : r.sequence_id = sequence_id})
    IN  [i \in DOMAIN rows |->
            [id          |-> rows[i].id,
             sequence_id |-> rows[i].sequence_id,
             ramp_rate   |-> rows[i].ramp,
             target_temp |-> rows[i].target,
             dwell_time  |-> rows[i].hold]]

\* The steps query on the committed table.
StepsOf(sequence_id) == StepsIn(Firing_steps, sequence_id)

\* The header query without "Kilns.name = ?": a program of that name on any
\* kiln.
get_kiln_program_AnyKiln(kiln_name, program_name) ==
    LET joined == {<<k, s>> \in Kilns \X Firing_sequences :
                      /\ s.kiln_id = k.id
                      /\ s.name = program_name}
    IN  IF joined = {} THEN None
        ELSE LET row == CHOOSE r \in joined : \A o \in joined :
                            \/ r[1].id < o[1].id
                            \/ r[1].id = o[1].id /\ r[2].id <= o[2].id
                 kiln    == Kiln_new(row[1].id, kiln_name, row[1].description)
                 program == FiringSequence_new(row[2].id, program_name,
                                               row[2].description, kiln.id)
             IN  Some([KilnProgram_new(kiln, program)
                          EXCEPT !.steps = StepsOf(program.id)])

get_kiln_program(kiln_name, program_name) ==
    LET joined == {<<k, s>> \in Kilns \X Firing_sequences :
                      /\ s.kiln_id = k.id
                      /\ k.name = kiln_name
                      /\ s.name = program_name}
    IN  IF joined = {} THEN None
        ELSE LET row == CHOOSE r \in joined : \A o \in joined :
                            \/ r[1].id < o[1].id
                            \/ r[1].id = o[1].id /\ r[2].id <= o[2].id
                 kiln    == Kiln_new(row[1].id, kiln_name, row[1].description)
                 program == FiringSequence_new(row[2].id, program_name,
                                               row[2].description, kiln.id)
             IN  Some([KilnProgram_new(kiln, program)
                          EXCEPT !.steps = StepsOf(program.id)])

\* The firing join ordered by link id instead of sequence id.
RECURSIVE OrderBySequenceId_ByLinkId(_)
OrderBySequenceId_ByLinkId(joined) ==
    IF joined = {} THEN <<>>
    ELSE LET first == CHOOSE r \in joined : \A o \in joined : r[1].id <= o[1].id
         IN  <<first>> \o OrderBySequenceId_ByLinkId(joined \ {first})

\* "ORDER BY Firing_sequences.id ASC" over the rows <<link, sequence, kiln>>
\* of the firing join.  Rows of equal sequence id come in the order the scan
\* of Project_firings meets them, which is rowid order.
RECURSIVE OrderBySequenceId(_)
OrderBySequenceId(joined) ==
    IF joined = {} THEN <<>>
    ELSE LET first == CHOOSE r \in joined : \A o \in joined \ {r} :
                          \/ r[2].id < o[2].id
                          \/ r[2].id = o[2].id /\ r[1].id < o[1].id
         IN  <<first>> \o OrderBySequenceId(joined \ {first})

\* The project tables as a call sees them at one point of its run.
ProjectTables ==
    [Projects        |-> Projects,
     Project_firings |-> Project_firings,
     Project_images  |-> Project_images]

\* The join keeping one link for each program: a program fired twice comes
\* back once, with the comment of its oldest link.
get_project_firing_steps_Distinct(db, project) ==
    LET project_id == project.project.id
        joined == {<<l, q, k>> \in db.Project_firings \X Firing_sequences \X Kilns :
                      /\ q.id = l.firing_sequence_id
                      /\ q.kiln_id = k.id
                      /\ l.project_id = project_id}
        oldest == {r \in joined : \A o \in joined :
                      o[2].id = r[2].id => r[1].id <= o[1].id}
        rows   == OrderBySequenceId(oldest)
    IN  [i \in DOMAIN rows |->
            <<get_kiln_program(rows[i][3].name, rows[i][2].name).value,
              rows[i][1].comment>>]

\* The (program, comment) pairs of a project: the join of its links with
\* their sequences and kilns, each row resolved through get_kiln_program.
names_comments(db, project) ==
    LET project_id == project.project.id
        joined == {<<l, q, k>> \in db.Project_firings \X Firing_sequences \X Kilns :
                      /\ q.id = l.firing_sequence_id
                      /\ q.kiln_id = k.id
                      /\ l.project_id = project_id}
        rows   == OrderBySequenceId(joined)
    IN  [i \in DOMAIN rows |->
            <<rows[i][3].name, rows[i][2].name, rows[i][1].comment>>]

\* The loop over names_comments: one get_kiln_program for each link.
get_project_firing_steps(db, project) ==
    LET rows == names_comments(db, project)
    IN  [i \in DOMAIN rows |->
            <<get_kiln_program(rows[i][1], rows[i][2]).value, rows[i][3]>>]

\* The image query without its WHERE clause: the images of every project.
get_project_images_All(db, project) ==
    LET rows == OrderById(db.Project_images)
    IN  [i \in DOMAIN rows |->
            [id          |-> rows[i].id,
             project_id  |-> rows[i].project_id,
             name        |-> rows[i].name,
             description |-> rows[i].caption,
             contents    |-> rows[i].contents]]

\* "... FROM Project_images WHERE project_id = ? ORDER BY id ASC", each row
\* deserialized into a ProjectImage (caption is read as description).
get_project_images(db, project) ==
    LET rows == OrderById({r \in db.Project_images :
                              r.project_id = project.project.id})
    IN  [i \in DOMAIN rows |->
            [id          |-> rows[i].id,
             project_id  |-> rows[i].project_id,
             name        |-> rows[i].name,
             description |-> rows[i].caption,
             contents    |-> rows[i].contents]]

\* add_firing over the first n pairs, as the loop of get_project does it.
RECURSIVE FoldFirings(_, _, _)
FoldFirings(project, firings, n) ==
    IF n = 0 THEN project
    ELSE add_firing(FoldFirings(project, firings, n - 1),
                    firings[n][1], firings[n][2])

RECURSIVE FoldPictures(_, _, _)
FoldPictures(project, images, n) ==
    IF n = 0 THEN project
    ELSE add_picture(FoldPictures(project, images, n - 1), images[n])

get_project(db, name) ==
    LET root_rows == OrderById({r \in db.Projects : r.name = name})
    IN  IF root_rows = <<>> THEN None
        ELSE LET row     == root_rows[1]
                 root    == KilnProject_new(
                                Project_new(row.id, row.name, row.description))
                 firings == get_project_firing_steps(db, root)
                 fired   == FoldFirings(root, firings, Len(firings))
                 images  == get_project_images(db, fired)
             IN  Some(FoldPictures(fired, images, Len(images)))

\* ------------------------------------------------------------------------
\* Results
\* ------------------------------------------------------------------------
Ok(v) == [err |-> "Ok", val |-> v]

Err(kind, payload) == [err |-> kind, val |-> payload]

Returned(op, args, result) ==
    [op |-> op, args |-> args, err |-> result.err, val |-> result.val]

\* ------------------------------------------------------------------------
\* Kilns and programs
\* ------------------------------------------------------------------------
AddKiln(name, description) ==
    /\ offered' = offered \cup {name}
    /\ UNCHANGED <<calls, memory>>
    /\ IF CountKilnsNamed(name) # 0
       THEN /\ ret' = Returned("add_kiln", <<name, description>>,
                               Err("DuplicateName", name))
            /\ UNCHANGED store
       ELSE /\ Kilns' = Kilns \cup
                  {[id          |-> sqlite_sequence.Kilns + 1,
                    name        |-> name,
                    description |-> description]}
            /\ sqlite_sequence' = [sqlite_sequence EXCEPT !.Kilns = @ + 1]
            /\ ret' = Returned("add_kiln", <<name, description>>, Ok(<<>>))
            /\ UNCHANGED <<Firing_sequences, Firing_steps, sqlite_schema,
                           project_store>>

GetKiln(name) ==
    /\ ret' = Returned("get_kiln", <<name>>, Ok(get_kiln(name)))
    /\ UNCHANGED <<store, offered, calls, memory>>

ListKilns ==
    /\ ret' = Returned("list_kilns", <<>>, Ok(list_kilns))
    /\ UNCHANGED <<store, offered, calls, memory>>

\* The INSERT with the new row's own id bound as its kiln_id.
NewSequenceRow_OwnId(id, program_name, program_description, kiln_id) ==
    [id          |-> id,
     name        |-> program_name,
     description |-> program_description,
     kiln_id     |-> id]

\* "INSERT INTO Firing_sequences (name, description, kiln_id) VALUES(?,?,?)"
NewSequenceRow(id, program_name, program_description, kiln_id) ==
    [id          |-> id,
     name        |-> program_name,
     description |-> program_description,
     kiln_id     |-> kiln_id]

AddKilnProgram(kiln_name, program_name, program_description) ==
    LET args     == <<kiln_name, program_name, program_description>>
        kiln_opt == get_kiln(kiln_name)
    IN  /\ UNCHANGED <<offered, calls, memory>>
        /\ IF ~kiln_opt.some
           THEN /\ ret' = Returned("add_kiln_program", args,
                                   Err("NoSuchName", kiln_name))
                /\ UNCHANGED store
           ELSE LET kiln == kiln_opt.value IN
                IF CountSequencesNamed(program_name, kiln.id) # 0
                THEN /\ ret' = Returned("add_kiln_program", args,
                                        Err("DuplicateName", program_name))
                     /\ UNCHANGED store
                ELSE LET program_id == sqlite_sequence.Firing_sequences + 1
                         firing_sequence ==
                             FiringSequence_new(program_id, program_name,
                                                program_description, kiln.id)
                     IN  /\ Firing_sequences' = Firing_sequences \cup
                               {NewSequenceRow(program_id, program_name,
                                               program_description, kiln.id)}
                         /\ sqlite_sequence' =
                               [sqlite_sequence EXCEPT !.Firing_sequences = @ + 1]
                         /\ ret' = Returned("add_kiln_program", args,
                                       Ok(KilnProgram_new(kiln, firing_sequence)))
                         /\ UNCHANGED <<Kilns, Firing_steps, sqlite_schema,
                                        project_store>>

ListKilnPrograms(kiln) ==
    /\ ret' = Returned("list_kiln_programs", <<kiln>>, Ok(list_kiln_programs(kiln)))
    /\ UNCHANGED <<store, offered, calls, memory>>

GetKilnProgram(kiln_name, program_name) ==
    /\ ret' = Returned("get_kiln_program", <<kiln_name, program_name>>,
                       Ok(get_kiln_program(kiln_name, program_name)))
    /\ UNCHANGED <<store, offered, calls, memory>>

\* ------------------------------------------------------------------------
\* Step replacement
\* ------------------------------------------------------------------------

\* The Firing_steps table as a transaction sees it: its rows and the
\* AUTOINCREMENT counter that goes with them.
StepsTable == [rows |-> Firing_steps, last |-> sqlite_sequence.Firing_steps]

\* A DELETE that matches no row.
DeleteSteps_Nothing(db, ids) == db

\* A DELETE without its WHERE clause: the steps of every program go.
DeleteSteps_All(db, ids) == [db EXCEPT !.rows = {}]

\* "DELETE FROM Firing_steps WHERE id in(...)"
DeleteSteps(db, ids) == [db EXCEPT !.rows = {r \in @ : r.id \notin ids}]

\* "INSERT INTO Firing_steps (sequence_id, ramp, target, hold) VALUES (?, ?, ?, ?)"
InsertStep(db, sequence_id, ramp, target, hold) ==
    [rows |-> db.rows \cup {[id          |-> db.last + 1,
                             sequence_id |-> sequence_id,
                             ramp        |-> ramp,
                             target      |-> target,
                             hold        |-> hold]},
     last |-> db.last + 1]

\* The insert loop echoing each step under its position in the caller's
\* list instead of the id the store assigned.
RECURSIVE InsertSteps_IndexIds(_, _, _, _)
InsertSteps_IndexIds(acc, seqid, steps, n) ==
    IF n = 0 THEN acc
    ELSE LET prev == InsertSteps_IndexIds(acc, seqid, steps, n - 1)
             step == steps[n]
             ramp == IF ramp_rate(step).tag = "DegPerSec"
                     THEN U32AsI32(ramp_rate(step).n)
                     ELSE -1
             db   == InsertStep(prev.db, seqid, ramp,
                                step.target_temp, step.dwell_time)
             final_step == FiringStep_new(n, seqid, ramp_rate(step),
                                          step.target_temp, step.dwell_time)
         IN  [db |-> db, program |-> add_step(prev.program, final_step)]

\* The insert loop echoing each step under the sequence id the caller's step
\* carried.
RECURSIVE InsertSteps_CallerIds(_, _, _, _)
InsertSteps_CallerIds(acc, seqid, steps, n) ==
    IF n = 0 THEN acc
    ELSE LET prev == InsertSteps_CallerIds(acc, seqid, steps, n - 1)
             step == steps[n]
             ramp == IF ramp_rate(step).tag = "DegPerSec"
                     THEN U32AsI32(ramp_rate(step).n)
                     ELSE -1
             db   == InsertStep(prev.db, seqid, ramp,
                                step.target_temp, step.dwell_time)
             final_step == FiringStep_new(db.last, step.sequence_id,
                                          ramp_rate(step),
                                          step.target_temp, step.dwell_time)
         IN  [db |-> db, program |-> add_step(prev.program, final_step)]

\* The insert loop of update_kiln_program over the first n caller steps.
RECURSIVE InsertSteps(_, _, _, _)
InsertSteps(acc, seqid, steps, n) ==
    IF n = 0 THEN acc
    ELSE LET prev == InsertSteps(acc, seqid, steps, n - 1)
             step == steps[n]
             ramp == IF ramp_rate(step).tag = "DegPerSec"
                     THEN U32AsI32(ramp_rate(step).n)
                     ELSE -1
             db   == InsertStep(prev.db, seqid, ramp,
                                step.target_temp, step.dwell_time)
             final_step == FiringStep_new(db.last, seqid, ramp_rate(step),
                                          step.target_temp, step.dwell_time)
         IN  [db |-> db, program |-> add_step(prev.program, final_step)]

\* DropBehavior::Commit: dropping the transaction keeps what it did so far.
TxnDrop_Commit(pre, cur) == cur

\* What dropping an uncommitted transaction leaves in the store:
\* DropBehavior::Rollback undoes every statement of the transaction.
TxnDrop(pre, cur) == pre

\* A store error at one point of the call: none, opening the transaction,
\* the DELETE, the k-th INSERT, or the COMMIT.
NoFault == [at |-> "none", k |-> 0]

Faults(steps) ==
    {[at |-> a, k |-> 0] : a \in {"none", "begin", "delete", "commit"}}
        \cup {[at |-> "insert", k |-> k] : k \in 1..Len(steps)}

\* A comparison that looks at the kiln and forgets the sequence.
Consistent_KilnOnly(kiln, seq, current_program) ==
    ~(kiln # current_program.kiln)

\* The header comparison that precedes the transaction.
Consistent(kiln, seq, current_program) ==
    ~(kiln # current_program.kiln \/ seq # current_program.sequence)

\* A missing program reported with the other error variant.
NoSuchProgram_AsInconsistent(kiln, seq) ==
    Err("InconsistentProgram", <<kiln.name, seq.name>>)

NoSuchProgram(kiln, seq) == Err("NoSuchProgram", <<kiln.name, seq.name>>)

\* The call with the DELETE issued on the connection before the header is
\* compared, so that a refused header has already cost the program its steps.
update_kiln_program_DeleteFirst(program, fault) ==
    LET kiln    == program.kiln
        seq     == program.sequence
        current == get_kiln_program(kiln.name, seq.name)
        pre     == StepsTable
    IN  IF ~current.some
        THEN [result |-> NoSuchProgram(kiln, seq), db |-> pre]
        ELSE LET existing_steps    == current.value.steps
                 existing_step_ids ==
                     {existing_steps[i].id : i \in DOMAIN existing_steps}
                 deleted == DeleteSteps(pre, existing_step_ids)
                 n       == IF fault.at = "insert" THEN fault.k - 1
                            ELSE Len(program.steps)
                 done    == InsertSteps([db      |-> deleted,
                                         program |-> KilnProgram_new(kiln, seq)],
                                        seq.id, program.steps, n)
             IN  IF ~Consistent(kiln, seq, current.value)
                 THEN [result |-> Err("InconsistentProgram",
                                      <<kiln.name, seq.name>>),
                       db     |-> deleted]
                 ELSE IF fault.at \in {"begin", "delete"}
                 THEN [result |-> Err("SqlError", fault), db |-> pre]
                 ELSE IF fault.at \in {"insert", "commit"}
                 THEN [result |-> Err("SqlError", fault),
                       db     |-> TxnDrop(pre, done.db)]
                 ELSE [result |-> Ok(done.program), db |-> done.db]

update_kiln_program(program, fault) ==
    LET kiln    == program.kiln
        seq     == program.sequence
        current == get_kiln_program(kiln.name, seq.name)
        pre     == StepsTable
    IN  IF ~current.some
        THEN [result |-> NoSuchProgram(kiln, seq), db |-> pre]
        ELSE IF ~Consistent(kiln, seq, current.value)
        THEN [result |-> Err("InconsistentProgram", <<kiln.name, seq.name>>),
              db     |-> pre]
        ELSE IF fault.at = "begin"
        THEN [result |-> Err("SqlError", fault), db |-> pre]
        ELSE IF fault.at = "delete"
        THEN [result |-> Err("SqlError", fault), db |-> TxnDrop(pre, pre)]
        ELSE LET existing_steps    == current.value.steps
                 existing_step_ids ==
                     {existing_steps[i].id : i \in DOMAIN existing_steps}
                 deleted == DeleteSteps(pre, existing_step_ids)
                 n       == IF fault.at = "insert" THEN fault.k - 1
                            ELSE Len(program.steps)
                 done    == InsertSteps([db      |-> deleted,
                                         program |-> KilnProgram_new(kiln, seq)],
                                        seq.id, program.steps, n)
             IN  IF fault.at \in {"insert", "commit"}
                 THEN [result |-> Err("SqlError", fault),
                       db     |-> TxnDrop(pre, done.db)]
                 ELSE [result |-> Ok(done.program), db |-> done.db]

\* ret keeps the caller's step list only for the calls that committed it.
UpdateKilnProgram(program, fault) ==
    LET out == update_kiln_program(program, fault)
    IN  /\ Firing_steps' = out.db.rows
        /\ sqlite_sequence' = [sqlite_sequence EXCEPT !.Firing_steps = out.db.last]
        /\ ret' = Returned("update_kiln_program",
                           [kiln     |-> program.kiln,
                            sequence |-> program.sequence,
                            steps    |-> IF out.result.err = "Ok"
                                         THEN program.steps ELSE <<>>,
                            fault    |-> fault],
                           out.result)
        /\ UNCHANGED <<Kilns, Firing_sequences, offered, sqlite_schema,
                       project_store, calls, memory>>

\* ------------------------------------------------------------------------
\* Opening the database
\* ------------------------------------------------------------------------

\* KilnDatabase::new on the path of the database file: make_schema runs on
\* what the file holds, each statement committing on its own.
New ==
    LET made == make_schema(sqlite_schema)
    IN  /\ sqlite_schema' = made.schema
        /\ ret' = Returned("new", <<>>,
                           IF made.failed THEN Err("SqlError", "make_schema")
                                          ELSE Ok(<<>>))
        /\ UNCHANGED <<Kilns, Firing_sequences, Firing_steps, sqlite_sequence,
                       project_store, offered, calls, memory>>

\* ------------------------------------------------------------------------
\* Projects
\* ------------------------------------------------------------------------

\* u64::to_string: the decimal digits of an id, most significant first.
RECURSIVE to_string(_)
to_string(n) ==
    IF n < 10 THEN <<n>> ELSE to_string(n \div 10) \o <<n % 10>>

\* What an INTEGER column keeps of a text of decimal digits bound to it.
RECURSIVE IntegerAffinity(_)
IntegerAffinity(text) ==
    IF text = <<>> THEN 0
    ELSE 10 * IntegerAffinity(SubSeq(text, 1, Len(text) - 1)) + text[Len(text)]

\* The uniqueness check of add_project finding no row whatever the name.
CountProjectsNamed_Zero(name) == 0

\* "SELECT COUNT(*) FROM Projects WHERE name=?"
CountProjectsNamed(name) == Cardinality({r \in Projects : r.name = name})

AddProject(name, description) ==
    /\ UNCHANGED <<offered, calls, memory>>
    /\ IF CountProjectsNamed(name) > 0
       THEN /\ ret' = Returned("add_project", <<name, description>>,
                               Err("DuplicateName", name))
            /\ UNCHANGED store
       ELSE LET rowid   == sqlite_sequence.Projects + 1
                project == Project_new(rowid, name, description)
            IN  /\ Projects' = Projects \cup
                       {[id |-> rowid, name |-> name, description |-> description]}
                /\ sqlite_sequence' = [sqlite_sequence EXCEPT !.Projects = rowid]
                /\ ret' = Returned("add_project", <<name, description>>,
                                   Ok(KilnProject_new(project)))
                /\ UNCHANGED <<Kilns, Firing_sequences, Firing_steps,
                               sqlite_schema, Project_firings, Project_images>>

GetProject(name) ==
    /\ ret' = Returned("get_project", <<name>>, Ok(get_project(ProjectTables, name)))
    /\ UNCHANGED <<store, offered, calls, memory>>

\* The writers handing back the handle they were given when its name is
\* stored, instead of reading the project again.
updated_project_Handle(db, project) ==
    IF get_project(db, project.project.name).some THEN Some(project) ELSE None

\* The re-fetch that ends add_project_firing and add_project_image:
\* get_project on the name of the handle, after the INSERT.
updated_project(db, project) == get_project(db, project.project.name)

\* The checks of add_project_firing with the project looked at first.
add_project_firing_checks_ProjectFirst(project, kiln_name, program_name) ==
    LET program    == get_kiln_program(kiln_name, program_name)
        db_project == get_project(ProjectTables, project.project.name)
    IN  IF ~db_project.some
        THEN Err("NoSuchName", project.project.name)
        ELSE IF db_project.value.project.id # project.project.id
        THEN Err("InconsistentProject", project.project.name)
        ELSE IF ~program.some
        THEN Err("NoSuchProgram", <<kiln_name, program_name>>)
        ELSE Ok(program.value)

\* What add_project_firing does before its INSERT: the error it returns, or
\* the program it resolved.
add_project_firing_checks(project, kiln_name, program_name) ==
    LET program    == get_kiln_program(kiln_name, program_name)
        db_project == get_project(ProjectTables, project.project.name)
    IN  IF ~program.some
        THEN Err("NoSuchProgram", <<kiln_name, program_name>>)
        ELSE IF ~db_project.some
        THEN Err("NoSuchName", project.project.name)
        ELSE IF db_project.value.project.id # project.project.id
        THEN Err("InconsistentProject", project.project.name)
        ELSE Ok(program.value)

\* ret keeps of the handle the Project value, which is all the call reads.
AddProjectFiring(project, kiln_name, program_name, comment) ==
    LET args    == [project      |-> project.project,
                    kiln_name    |-> kiln_name,
                    program_name |-> program_name,
                    comment      |-> comment]
        checked == add_project_firing_checks(project, kiln_name, program_name)
    IN  /\ UNCHANGED <<offered, memory>>
        /\ IF checked.err # "Ok"
           THEN /\ ret' = Returned("add_project_firing", args, checked)
                /\ UNCHANGED <<store, calls>>
           ELSE LET program == checked.val
                    rowid   == sqlite_sequence.Project_firings + 1
                    row     ==
                        [id                 |-> rowid,
                         project_id         |->
                             IntegerAffinity(to_string(project.project.id)),
                         firing_sequence_id |->
                             IntegerAffinity(to_string(program.sequence.id)),
                         comment            |-> comment]
                    after   == [ProjectTables EXCEPT !.Project_firings =
                                                        @ \cup {row}]
                IN  /\ Project_firings' = after.Project_firings
                    /\ sqlite_sequence' =
                          [sqlite_sequence EXCEPT !.Project_firings = rowid]
                    /\ UNCHANGED <<Kilns, Firing_sequences, Firing_steps,
                                   sqlite_schema, Projects, Project_images>>
                    /\ ret' = Returned("add_project_firing", args,
                                 Ok(updated_project(after, project).value))
                    /\ calls' = Append(calls, [op   |-> "add_project_firing",
                                               args |-> args])

\* The INSERT binding the id of the stored project of the handle's name.
image_project_id_Stored(project) ==
    IF \E r \in Projects : r.name = project.project.name
    THEN (CHOOSE r \in Projects : r.name = project.project.name).id
    ELSE project.project.id

\* "let project_id = project.project.id;": the id bound to the INSERT.
image_project_id(project) == project.project.id

\* The INSERT commits on its own, so the row stays when the re-fetch by the
\* handle's name finds no project and the final unwrap panics.
AddProjectImage(project, image_name, description, image_data) ==
    LET args  == [project     |-> project.project,
                  image_name  |-> image_name,
                  description |-> description,
                  image_data  |-> image_data]
        rowid == sqlite_sequence.Project_images + 1
        row   == [id         |-> rowid,
                  project_id |-> image_project_id(project),
                  name       |-> image_name,
                  caption    |-> description,
                  contents   |-> image_data]
        after == [ProjectTables EXCEPT !.Project_images = @ \cup {row}]
        final_project == updated_project(after, project)
    IN  /\ UNCHANGED <<offered, memory>>
        /\ calls' = IF final_project.some
                    THEN Append(calls, [op |-> "add_project_image", args |-> args])
                    ELSE calls
        /\ Project_images' = after.Project_images
        /\ sqlite_sequence' = [sqlite_sequence EXCEPT !.Project_images = rowid]
        /\ UNCHANGED <<Kilns, Firing_sequences, Firing_steps, sqlite_schema,
                       Projects, Project_firings>>
        /\ ret' = Returned("add_project_image", args,
                     IF final_project.some THEN Ok(final_project.value)
                     ELSE Err("Panic", "unwrap"))

\* ------------------------------------------------------------------------
\* Editing a KilnProgram and a KilnProject in memory
\* ------------------------------------------------------------------------

\* The range check of remove_step written with <=.
remove_step_Inclusive(program, step) ==
    IF step <= Len(program.steps)
    THEN [result  |-> Ok(<<>>),
          program |-> [program EXCEPT !.steps = Vec_remove(@, step)]]
    ELSE [result |-> Err("InvalidIndex", step), program |-> program]

remove_step(program, step) ==
    IF step < Len(program.steps)
    THEN [result  |-> Ok(<<>>),
          program |-> [program EXCEPT !.steps = Vec_remove(@, step)]]
    ELSE [result |-> Err("InvalidIndex", step), program |-> program]

\* insert_step that puts the step in front whatever the index.
insert_step_Front(program, step, index) ==
    IF index <= Len(program.steps)
    THEN [result  |-> Ok(<<>>),
          program |-> [program EXCEPT !.steps = Vec_insert(@, 0, step)]]
    ELSE [result |-> Err("InvalidIndex", index), program |-> program]

insert_step(program, step, index) ==
    IF index <= Len(program.steps)
    THEN [result  |-> Ok(<<>>),
          program |-> [program EXCEPT !.steps = Vec_insert(@, index, step)]]
    ELSE [result |-> Err("InvalidIndex", index), program |-> program]

\* delete_firing that removes the program and keeps its comment.
delete_firing_CommentKept(project, idx) ==
    IF idx < Len(project.firings)
    THEN [result  |-> Ok(<<>>),
          project |-> [project EXCEPT !.firings = Vec_remove(@, idx)]]
    ELSE [result |-> Err("InvalidIndex", idx), project |-> project]

delete_firing(project, idx) ==
    IF idx < Len(project.firings)
    THEN [result  |-> Ok(<<>>),
          project |-> [project EXCEPT
                          !.firing_comments = Vec_remove(@, idx),
                          !.firings         = Vec_remove(@, idx)]]
    ELSE [result |-> Err("InvalidIndex", idx), project |-> project]

\* insert_firing that inserts the program at idx and pushes the comment at
\* the end of the comments.
insert_firing_CommentPushed(project, program, comment, idx) ==
    IF idx <= Len(project.firings)
    THEN [result  |-> Ok(<<>>),
          project |-> [project EXCEPT
                          !.firings         = Vec_insert(@, idx, program),
                          !.firing_comments = Append(@, comment)]]
    ELSE [result |-> Err("InvalidIndex", idx), project |-> project]

insert_firing(project, program, comment, idx) ==
    IF idx <= Len(project.firings)
    THEN [result  |-> Ok(<<>>),
          project |-> [project EXCEPT
                          !.firings         = Vec_insert(@, idx, program),
                          !.firing_comments = Vec_insert(@, idx, comment)]]
    ELSE [result |-> Err("InvalidIndex", idx), project |-> project]

delete_picture(project, idx) ==
    IF idx < Len(project.pictures)
    THEN [result  |-> Ok(<<>>),
          project |-> [project EXCEPT !.pictures = Vec_remove(@, idx)]]
    ELSE [result |-> Err("InvalidIndex", idx), project |-> project]

\* The range check of insert_picture written with <.
insert_picture_Strict(project, image, idx) ==
    IF idx < Len(project.pictures)
    THEN [result  |-> Ok(<<>>),
          project |-> [project EXCEPT !.pictures = Vec_insert(@, idx, image)]]
    ELSE [result |-> Err("InvalidIndex", idx), project |-> project]

insert_picture(project, image, idx) ==
    IF idx <= Len(project.pictures)
    THEN [result  |-> Ok(<<>>),
          project |-> [project EXCEPT !.pictures = Vec_insert(@, idx, image)]]
    ELSE [result |-> Err("InvalidIndex", idx), project |-> project]

\* A call on the KilnProgram the caller holds.
EditProgram(op, args, out) ==
    /\ kiln_program' = out.program
    /\ ret' = Returned(op, args, out.result)
    /\ UNCHANGED <<store, offered, calls, kiln_project, conn, lib_program>>

ProgramAddStep(step) ==
    EditProgram("add_step", <<step>>,
                [result |-> Ok(<<>>), program |-> add_step(kiln_program, step)])

ProgramRemoveStep(step) ==
    EditProgram("remove_step", <<step>>, remove_step(kiln_program, step))

ProgramInsertStep(step, index) ==
    EditProgram("insert_step", <<step, index>>,
                insert_step(kiln_program, step, index))

\* A call on the KilnProject the caller holds.
EditProject(op, args, out) ==
    /\ kiln_project' = out.project
    /\ ret' = Returned(op, args, out.result)
    /\ UNCHANGED <<store, offered, calls, kiln_program, conn, lib_program>>

ProjectAddFiring(firing, comment) ==
    EditProject("add_firing", <<firing, comment>>,
                [result  |-> Ok(<<>>),
                 project |-> add_firing(kiln_project, firing, comment)])

ProjectDeleteFiring(idx) ==
    EditProject("delete_firing", <<idx>>, delete_firing(kiln_project, idx))

ProjectInsertFiring(program, comment, idx) ==
    EditProject("insert_firing", <<program, comment, idx>>,
                insert_firing(kiln_project, program, comment, idx))

ProjectAddPicture(picture) ==
    EditProject("add_picture", <<picture>>,
                [result  |-> Ok(<<>>),
                 project |-> add_picture(kiln_project, picture)])

ProjectDeletePicture(idx) ==
    EditProject("delete_picture", <<idx>>, delete_picture(kiln_project, idx))

ProjectInsertPicture(image, idx) ==
    EditProject("insert_picture", <<image, idx>>,
                insert_picture(kiln_project, image, idx))

\* ------------------------------------------------------------------------
\* The programs a caller can hand to update_kiln_program
\* ------------------------------------------------------------------------

\* FiringStep::new as the tests call it: an AFAP step, a step with a rate
\* that carries made-up ids, and a step with a rate of zero.
CallerSteps ==
    {FiringStep_new(0, 0, AFAP, 1000, 30),
     FiringStep_new(7, 9, DegPerSec(U32(0, 300)), 1250, 15),
     FiringStep_new(0, 0, DegPerSec(U32(0, 0)), 1000, 30)}

StepLists == UNION {[1..n -> CallerSteps] : n \in 0..MaxSteps}

Header(program) == [kiln |-> program.kiln, sequence |-> program.sequence]

\* The headers of the programs the store holds, as get_kiln_program or
\* add_kiln_program hand them out.
StoredHeaders ==
    {Header(get_kiln_program(k, p).value) :
        <<k, p>> \in {kp \in KilnNames \X ProgNames :
                         get_kiln_program(kp[1], kp[2]).some}}

KilnIds == 1..(sqlite_sequence.Kilns + 1)

SequenceIds == 1..(sqlite_sequence.Firing_sequences + 1)

\* A header with one field overwritten, as a caller holding a program can do.
Altered(h) ==
    {[h EXCEPT !.kiln.id = v] : v \in KilnIds}
      \cup {[h EXCEPT !.kiln.name = v] : v \in KilnNames}
      \cup {[h EXCEPT !.kiln.description = v] : v \in Descriptions}
      \cup {[h EXCEPT !.sequence.id = v] : v \in SequenceIds}
      \cup {[h EXCEPT !.sequence.name = v] : v \in ProgNames}
      \cup {[h EXCEPT !.sequence.description = v] : v \in Descriptions}
      \cup {[h EXCEPT !.sequence.kiln_id = v] : v \in KilnIds}

\* A header built by hand with Kiln::new and FiringSequence::new.
Forged ==
    {[kiln     |-> Kiln_new(1, k, "d1"),
      sequence |-> FiringSequence_new(1, p, "d1", 1)] :
        k \in KilnNames, p \in ProgNames}

Handles == UNION {Altered(h) : h \in StoredHeaders} \cup Forged

WithSteps(h, steps) == [kiln |-> h.kiln, sequence |-> h.sequence, steps |-> steps]

\* The header passes both checks that precede the transaction.
Validates(h) ==
    LET current == get_kiln_program(h.kiln.name, h.sequence.name)
    IN  current.some /\ Header(current.value) = h

\* ------------------------------------------------------------------------
\* Specification
\* ------------------------------------------------------------------------
Init ==
    /\ Kilns = {}
    /\ Firing_sequences = {}
    /\ Firing_steps = {}
    /\ sqlite_sequence = [Kilns |-> 0, Firing_sequences |-> 0, Firing_steps |-> 0,
                          Projects |-> 0, Project_firings |-> 0,
                          Project_images |-> 0]
    /\ ret = Returned("new", <<>>, Ok(<<>>))
    /\ offered = {}
    /\ calls = <<>>
    /\ sqlite_schema = make_schema({}).schema
    /\ Projects = {}
    /\ Project_firings = {}
    /\ Project_images = {}
    /\ kiln_program = KilnProgram_new(Kiln_new(1, <<83>>, "d1"),
                                      FiringSequence_new(1, <<66>>, "d1", 1))
    /\ kiln_project = KilnProject_new(Project_new(1, "p1", "d1"))
    /\ conn = [c \in Connections |-> Idle]
    /\ lib_program = Program_new("testing", "description")

\* Creating kilns and programs.  The model stops inserting programs once
\* MaxSequenceId of them exist.
Creates(KNames, KilnDescs, ProgDescs) ==
    \/ \E name \in KNames, description \in KilnDescs :
          AddKiln(name, description)
    \/ \E k \in KNames, p \in ProgNames, d \in ProgDescs :
          /\ \/ sqlite_sequence.Firing_sequences < MaxSequenceId
             \/ ~get_kiln(k).some
             \/ get_kiln_program(k, p).some
          /\ AddKilnProgram(k, p, d)

Reads ==
    \/ \E name \in KilnNames : GetKiln(name)
    \/ ListKilns
    \/ \E k \in KilnNames : ListKilnPrograms(k)
    \/ \E k \in KilnNames, p \in ProgNames : GetKilnProgram(k, p)

\* update_kiln_program with the headers of H and the step lists of L.  The
\* model stops starting replacements once MaxStepId ids have been handed out.
Replaces(H, L) ==
    \E h \in H :
        IF Validates(h)
        THEN \E steps \in L : \E fault \in Faults(steps) :
                /\ sqlite_sequence.Firing_steps + Len(steps) <= MaxStepId
                /\ UpdateKilnProgram(WithSteps(h, steps), fault)
        ELSE UpdateKilnProgram(WithSteps(h, <<>>), NoFault)

Next ==
    \/ Creates(KilnNames, Descriptions, Descriptions)
    \/ Reads

Spec == Init /\ [][Next]_vars

NextReplace ==
    \/ Creates({<<83>>}, {"d1"}, {"d1"})
    \/ \E k \in KilnNames, p \in ProgNames : GetKilnProgram(k, p)
    \/ Replaces(StoredHeaders, StepLists)

SpecReplace == Init /\ [][NextReplace]_vars

NextHandles ==
    \/ Creates(KilnNames, {"d1"}, {"d1"})
    \/ Replaces(Handles, {<<>>})

SpecHandles == Init /\ [][NextHandles]_vars

\* Creating projects.  The model stops inserting projects once MaxProjectId
\* of them exist.
CreatesProjects(Descs) ==
    \E name \in ProjectNames, description \in Descs :
        /\ \/ sqlite_sequence.Projects < MaxProjectId
           \/ get_project(ProjectTables, name).some
        /\ AddProject(name, description)

ProjectIds == 1..(sqlite_sequence.Projects + 1)

\* The handles a caller can pass as a project: a KilnProject of any name and
\* id, built with Project::new and KilnProject::new or returned by the store
\* earlier.  The operations read only the handle's Project value.
ProjectHandles ==
    {KilnProject_new(Project_new(id, name, "d1")) :
        id \in ProjectIds, name \in ProjectNames}

\* The handles the store has returned: what add_project gave for each
\* stored project.
StoredProjectHandles ==
    {KilnProject_new(Project_new(r.id, r.name, r.description)) : r \in Projects}

\* add_project_firing with the handles of H: with every comment when the
\* call passes its checks, with one comment when it does not.  The model
\* stops inserting links once MaxFiringId of them exist.
Fires(H, KNames) ==
    \E project \in H, k \in KNames, p \in ProgNames :
        IF add_project_firing_checks(project, k, p).err = "Ok"
        THEN \E comment \in Comments :
                /\ sqlite_sequence.Project_firings < MaxFiringId
                /\ AddProjectFiring(project, k, p, comment)
        ELSE AddProjectFiring(project, k, p, "Full fuse step")

\* add_project_image with the handles of H, up to MaxImageId images.
Pictures(H) ==
    \E project \in H, name \in ImageNames, caption \in Captions,
       data \in ImageData :
        /\ sqlite_sequence.Project_images < MaxImageId
        /\ AddProjectImage(project, name, caption, data)

NextFirings ==
    \/ Creates({<<83>>}, {"d1"}, {"d1"})
    \/ CreatesProjects({"d1"})
    \/ Fires(ProjectHandles, {<<83>>})
    \/ \E name \in ProjectNames : GetProject(name)

SpecFirings == Init /\ [][NextFirings]_vars

NextImages ==
    \/ CreatesProjects(Descriptions)
    \/ Pictures(StoredProjectHandles)
    \/ \E name \in ProjectNames : GetProject(name)

SpecImages == Init /\ [][NextImages]_vars

\* Opening the database file again once it holds kilns and programs.
NextOpen ==
    \/ Creates(KilnNames, {"d1"}, {"d1"})
    \/ New

SpecOpen == Init /\ [][NextOpen]_vars

\* The indices a caller can pass for a list of at most max elements.
Indices(max) == 0..(max + 1)

\* Editing the held KilnProgram, which grows to MaxLen steps.
NextProgramEdit ==
    \/ \E step \in CallerSteps :
          /\ Len(kiln_program.steps) < MaxLen
          /\ ProgramAddStep(step)
    \/ \E n \in Indices(MaxLen) : ProgramRemoveStep(n)
    \/ \E step \in CallerSteps, n \in Indices(MaxLen) :
          /\ Len(kiln_program.steps) < MaxLen \/ n > Len(kiln_program.steps)
          /\ ProgramInsertStep(step, n)

SpecProgramEdit == Init /\ [][NextProgramEdit]_vars

\* Two programs of one kiln, as a caller holds them.
HeldPrograms ==
    {KilnProgram_new(Kiln_new(1, <<83>>, "d1"),
                     FiringSequence_new(i, ProgName, "d1", 1)) :
        <<i, ProgName>> \in {<<1, <<66>>>>, <<2, <<65, 66>>>>}}

\* Two pictures of the held project.
HeldPictures ==
    {set_contents(ProjectImage_new(1, 1, "final.jpg", "c1"), <<255, 0>>),
     ProjectImage_new(2, 1, "final.jpg", "c2")}

\* Editing the held KilnProject, which grows to MaxFirings firings and
\* MaxPictures pictures.
NextProjectEdit ==
    \/ \E firing \in HeldPrograms, comment \in Comments :
          /\ Len(kiln_project.firings) < MaxFirings
          /\ ProjectAddFiring(firing, comment)
    \/ \E idx \in Indices(MaxFirings) : ProjectDeleteFiring(idx)
    \/ \E program \in HeldPrograms, comment \in Comments,
          idx \in Indices(MaxFirings) :
          /\ Len(kiln_project.firings) < MaxFirings
                \/ idx > Len(kiln_project.firings)
          /\ ProjectInsertFiring(program, comment, idx)
    \/ \E picture \in HeldPictures :
          /\ Len(kiln_project.pictures) < MaxPictures
          /\ ProjectAddPicture(picture)
    \/ \E idx \in Indices(MaxPictures) : ProjectDeletePicture(idx)
    \/ \E image \in HeldPictures, idx \in Indices(MaxPictures) :
          /\ Len(kiln_project.pictures) < MaxPictures
                \/ idx > Len(kiln_project.pictures)
          /\ ProjectInsertPicture(image, idx)

SpecProjectEdit == Init /\ [][NextProjectEdit]_vars

\* ------------------------------------------------------------------------
\* Properties of step replacement (checked under SpecReplace)
\* ------------------------------------------------------------------------

\* What a caller reads from a step through its accessors.
Triple(step) == <<ramp_rate(step), step.target_temp, step.dwell_time>>

UpdateOk == ret.op = "update_kiln_program" /\ ret.err = "Ok"

\* C1: after a successful update_kiln_program with step list S, fetching the
\* program returns exactly Len(S) steps whose (ramp_rate, target_temp,
\* dwell_time) triples are those of S in order, and the store holds no other
\* step row of that program.
C1_ReplaceThenFetch ==
    UpdateOk =>
        LET S   == ret.args.steps
            got == get_kiln_program(ret.args.kiln.name, ret.args.sequence.name)
        IN  /\ got.some
            /\ Len(got.value.steps) = Len(S)
            /\ \A i \in 1..Len(S) : Triple(got.value.steps[i]) = Triple(S[i])
            /\ Cardinality({r \in Firing_steps :
                               r.sequence_id = ret.args.sequence.id}) = Len(S)

\* A two-step list of different steps has replaced an earlier one-step list of
\* the only program there is.
C1_Witness ==
    /\ UpdateOk
    /\ Len(ret.args.steps) = 2
    /\ ret.args.steps[1] # ret.args.steps[2]
    /\ Cardinality(Firing_sequences) = 1
    /\ sqlite_sequence.Firing_steps = 3

\* C2: the KilnProgram a successful update_kiln_program returns equals, field
\* for field, the one get_kiln_program returns for the same names right after.
C2_ReturnedIsStored ==
    UpdateOk =>
        get_kiln_program(ret.args.kiln.name, ret.args.sequence.name)
            = Some(ret.val)

\* A returned program of two steps whose ids are not their list positions.
C2_Witness ==
    /\ UpdateOk
    /\ Len(ret.val.steps) = 2
    /\ ret.val.steps[1].id = 2

\* C3: a store error at the DELETE, at any INSERT or at COMMIT makes the call
\* return SqlError and leaves the Firing_steps table, and the rest of the
\* store, exactly as it was before the call.
C3_Atomic ==
    [][(/\ ret'.op = "update_kiln_program"
        /\ ret'.args.fault.at \in {"delete", "insert", "commit"})
          => /\ ret'.err = "SqlError"
             /\ Firing_steps' = Firing_steps
             /\ store' = store]_vars

\* The second INSERT failed in a replacement of a program that had steps: the
\* old steps were deleted and one new step inserted when the error came.
C3_Witness ==
    /\ ret.op = "update_kiln_program"
    /\ ret.err = "SqlError"
    /\ ret.args.fault = [at |-> "insert", k |-> 2]
    /\ StepsOf(ret.args.sequence.id) # <<>>

\* ------------------------------------------------------------------------
\* Properties of header validation (checked under SpecHandles)
\* ------------------------------------------------------------------------
HeaderFields ==
    {"kiln.id", "kiln.name", "sequence.id", "sequence.name", "sequence.kiln_id"}

IdFields == {"kiln.id", "sequence.id", "sequence.kiln_id"}

Field(h, f) ==
    CASE f = "kiln.id"          -> h.kiln.id
      [] f = "kiln.name"        -> h.kiln.name
      [] f = "sequence.id"      -> h.sequence.id
      [] f = "sequence.name"    -> h.sequence.name
      [] f = "sequence.kiln_id" -> h.sequence.kiln_id

\* h is the stored header base with field f, and nothing else, overwritten.
OneAltered(base, h, f) ==
    /\ Field(base, f) # Field(h, f)
    /\ \A g \in HeaderFields \ {f} : Field(base, g) = Field(h, g)
    /\ base.kiln.description = h.kiln.description
    /\ base.sequence.description = h.sequence.description

CalledHeader == [kiln |-> ret.args.kiln, sequence |-> ret.args.sequence]

StoredPair(h) == <<h.kiln.name, h.sequence.name>>

\* C4 as claimed: a stored program with exactly one of the five header fields
\* altered always fails with InconsistentProgram carrying the stored names.
C4_AsClaimed ==
    ret.op = "update_kiln_program" =>
        \A base \in StoredHeaders, f \in HeaderFields :
            OneAltered(base, CalledHeader, f) =>
                /\ ret.err = "InconsistentProgram"
                /\ ret.val = StoredPair(base)

\* C4 (amended): with one of kiln id, sequence id or sequence.kiln_id altered
\* the call fails with InconsistentProgram carrying the stored names; with the
\* kiln name or the sequence name altered it fails with NoSuchProgram carrying
\* the caller's names when they resolve to no stored program, and with
\* InconsistentProgram carrying the caller's names when they resolve to
\* another stored program.
C4_OneFieldAltered ==
    ret.op = "update_kiln_program" =>
        \A base \in StoredHeaders, f \in HeaderFields :
            OneAltered(base, CalledHeader, f) =>
                IF f \in IdFields
                THEN /\ ret.err = "InconsistentProgram"
                     /\ ret.val = StoredPair(base)
                ELSE /\ ret.val = StoredPair(CalledHeader)
                     /\ ret.err =
                          IF get_kiln_program(CalledHeader.kiln.name,
                                              CalledHeader.sequence.name).some
                          THEN "InconsistentProgram"
                          ELSE "NoSuchProgram"

\* A stored program's kiln name was altered to that of another kiln, which has
\* a program of the same name, and the call was refused as inconsistent.
C4_Witness ==
    /\ ret.op = "update_kiln_program"
    /\ ret.err = "InconsistentProgram"
    /\ \E base \in StoredHeaders : OneAltered(base, CalledHeader, "kiln.name")

\* C5: update_kiln_program with names that resolve to no stored program fails
\* with NoSuchProgram carrying the caller's pair, whatever the rest of the
\* header says.
C5_NoSuchProgram ==
    (/\ ret.op = "update_kiln_program"
     /\ ~get_kiln_program(ret.args.kiln.name, ret.args.sequence.name).some)
        => /\ ret.err = "NoSuchProgram"
           /\ ret.val = <<ret.args.kiln.name, ret.args.sequence.name>>

\* The names resolve to nothing and the header's kiln id is not the id of
\* the stored kiln of that name either.
C5_Witness ==
    /\ ret.op = "update_kiln_program"
    /\ ret.err = "NoSuchProgram"
    /\ \E k \in Kilns : k.name = ret.args.kiln.name /\ k.id # ret.args.kiln.id

\* ------------------------------------------------------------------------
\* Properties of creation and listing (checked under Spec)
\* ------------------------------------------------------------------------

\* C6: add_kiln on a store that already holds the name returns
\* DuplicateName(name) and inserts nothing, so every name ever offered has
\* exactly one Kilns row and there are no other rows.
C6_DuplicateKiln ==
    /\ [](/\ \A name \in offered :
                Cardinality({k \in Kilns : k.name = name}) = 1
          /\ Cardinality(Kilns) = Cardinality(offered))
    /\ [][(/\ ret'.op = "add_kiln"
           /\ \E k \in Kilns : k.name = ret'.args[1])
             => /\ ret'.err = "DuplicateName"
                /\ ret'.val = ret'.args[1]
                /\ Kilns' = Kilns]_vars

\* A second add_kiln of a stored name was refused, with two kilns stored.
C6_Witness ==
    /\ ret.op = "add_kiln"
    /\ ret.err = "DuplicateName"
    /\ Cardinality(Kilns) = 2

\* a sorts before b as byte strings.
BytesBefore(a, b) ==
    \E i \in 1..(Len(a) + 1) :
        /\ \A j \in 1..(i - 1) : j <= Len(b) /\ a[j] = b[j]
        /\ IF i = Len(a) + 1 THEN Len(b) >= i
                             ELSE i <= Len(b) /\ a[i] < b[i]

Ascending(l) == \A i \in 1..(Len(l) - 1) : BytesBefore(l[i], l[i + 1])

Elements(l) == {l[i] : i \in DOMAIN l}

\* C7: list_kilns returns every stored kiln name exactly once in ascending
\* lexical order, and list_kiln_programs(k) the program names of kiln k in
\* ascending lexical order, whatever the insertion order was.
C7_ListsAscending ==
    /\ Ascending(list_kilns)
    /\ Elements(list_kilns) = {k.name : k \in Kilns}
    /\ Len(list_kilns) = Cardinality(Kilns)
    /\ \A name \in KilnNames :
          LET l == list_kiln_programs(name)
          IN  /\ Ascending(l)
              /\ Elements(l) =
                    {s.name : s \in {q \in Firing_sequences :
                        \E k \in Kilns : k.name = name /\ k.id = q.kiln_id}}

\* Kilns, and two programs of the listed kiln, were created in descending
\* order of name.
C7_Witness ==
    /\ ret.op = "list_kiln_programs"
    /\ Len(ret.val) = 2
    /\ \E a, b \in Kilns : a.id < b.id /\ BytesBefore(b.name, a.name)
    /\ \E k \in Kilns, s1, s2 \in Firing_sequences :
          /\ k.name = ret.args[1]
          /\ s1.kiln_id = k.id /\ s2.kiln_id = k.id
          /\ s1.id < s2.id /\ BytesBefore(s2.name, s1.name)

\* C8: add_kiln_program for a kiln name that no stored kiln has returns
\* NoSuchName(kiln name) and inserts no Firing_sequences row, also when a
\* program of that name exists on another kiln.
C8_NoSuchKiln ==
    [][(/\ ret'.op = "add_kiln_program"
        /\ \A k \in Kilns : k.name # ret'.args[1])
          => /\ ret'.err = "NoSuchName"
             /\ ret'.val = ret'.args[1]
             /\ Firing_sequences' = Firing_sequences]_vars

\* The call was refused for want of the kiln while another kiln has a program
\* of the requested name.
C8_Witness ==
    /\ ret.op = "add_kiln_program"
    /\ ret.err = "NoSuchName"
    /\ \E s \in Firing_sequences : s.name = ret.args[2]

\* C9: for a stored kiln k, add_kiln_program(k, p) returns DuplicateName(p) and
\* inserts nothing exactly when k already has a program named p, and
\* otherwise inserts one row, also when p exists on other kilns; no two
\* Firing_sequences rows share kiln_id and name.
C9_UniquePerKiln ==
    /\ [](\A s1, s2 \in Firing_sequences :
             (s1.kiln_id = s2.kiln_id /\ s1.name = s2.name) => s1 = s2)
    /\ [][(/\ ret'.op = "add_kiln_program"
           /\ \E k \in Kilns : k.name = ret'.args[1])
             => LET kiln == CHOOSE k \in Kilns : k.name = ret'.args[1]
                    has  == \E s \in Firing_sequences :
                               s.kiln_id = kiln.id /\ s.name = ret'.args[2]
                IN  IF has
                    THEN /\ ret'.err = "DuplicateName"
                         /\ ret'.val = ret'.args[2]
                         /\ Firing_sequences' = Firing_sequences
                    ELSE /\ ret'.err = "Ok"
                         /\ Firing_sequences \subseteq Firing_sequences'
                         /\ Cardinality(Firing_sequences') =
                               Cardinality(Firing_sequences) + 1]_vars

\* A program was created on one kiln under a name another kiln's older
\* program has.
C9_Witness ==
    /\ ret.op = "add_kiln_program"
    /\ ret.err = "Ok"
    /\ \E s \in Firing_sequences :
          /\ s.name = ret.val.sequence.name
          /\ s.kiln_id # ret.val.kiln.id
          /\ s.id < ret.val.sequence.id

\* C10: a successful add_kiln_program returns a program with zero steps whose
\* kiln and sequence equal those get_kiln_program returns for the same names
\* right after, which has zero steps too.
C10_AddedIsStored ==
    (ret.op = "add_kiln_program" /\ ret.err = "Ok") =>
        LET got == get_kiln_program(ret.args[1], ret.args[2])
        IN  /\ ret.val.steps = <<>>
            /\ got.some
            /\ got.value.kiln = ret.val.kiln
            /\ got.value.sequence = ret.val.sequence
            /\ got.value.steps = <<>>

\* The program created is not the first one, on a kiln that is not the first
\* one, and its description differs from the kiln's.
C10_Witness ==
    /\ ret.op = "add_kiln_program"
    /\ ret.err = "Ok"
    /\ ret.val.sequence.id > ret.val.kiln.id
    /\ ret.val.kiln.id = 2
    /\ ret.val.sequence.description # ret.val.kiln.description

\* ------------------------------------------------------------------------
\* Properties of fetching and listing programs (checked under Spec)
\* ------------------------------------------------------------------------

\* Some stored program named p belongs to a stored kiln named k.
Resolves(k, p) ==
    \E kiln \in Kilns, q \in Firing_sequences :
        kiln.name = k /\ q.name = p /\ q.kiln_id = kiln.id

\* C11: get_kiln_program(k, p) returns Ok, with Some exactly when a stored
\* program named p belongs to a stored kiln named k, and None otherwise: when
\* there is no kiln k, when k has no program p, and when p is only on another
\* kiln.
C11_NoneUnlessResolves ==
    ret.op = "get_kiln_program" =>
        /\ ret.err = "Ok"
        /\ ret.val.some <=> Resolves(ret.args[1], ret.args[2])
        /\ ret.val.some =>
              /\ ret.val.value.kiln.name = ret.args[1]
              /\ ret.val.value.sequence.name = ret.args[2]

\* None came back for a stored kiln while another kiln has a program of the
\* requested name.
C11_Witness ==
    /\ ret.op = "get_kiln_program"
    /\ ~ret.val.some
    /\ \E kiln \in Kilns : kiln.name = ret.args[1]
    /\ \E q \in Firing_sequences : q.name = ret.args[2]

\* The Firing_sequences rows of the kilns named k.
ProgramsOf(k) ==
    {q \in Firing_sequences : \E kiln \in Kilns : kiln.name = k /\ kiln.id = q.kiln_id}

\* C12: list_kiln_programs(k) returns Ok with the empty list when no kiln is
\* named k and when kiln k has no programs, and otherwise one name for each
\* program whose kiln_id is k's id and nothing of any other kiln.
C12_OwnProgramsOnly ==
    ret.op = "list_kiln_programs" =>
        /\ ret.err = "Ok"
        /\ Len(ret.val) = Cardinality(ProgramsOf(ret.args[1]))
        /\ Elements(ret.val) = {q.name : q \in ProgramsOf(ret.args[1])}
        /\ (\A kiln \in Kilns : kiln.name # ret.args[1]) => ret.val = <<>>

\* The list of a stored kiln has one name while another kiln has a program
\* of a different name.
C12_Witness ==
    /\ ret.op = "list_kiln_programs"
    /\ Len(ret.val) = 1
    /\ \E q \in Firing_sequences \ ProgramsOf(ret.args[1]) : q.name # ret.val[1]

\* ------------------------------------------------------------------------
\* Properties of project firings (checked under SpecFirings)
\* ------------------------------------------------------------------------

\* The successful add_project_firing calls made on the project named name,
\* oldest first.
FiringCalls(name) ==
    LET Mine(c) == c.op = "add_project_firing" /\ c.args.project.name = name
    IN  SelectSeq(calls, Mine)

\* What get_project returns now for a stored project.
Fetched(name) == get_project(ProjectTables, name).value

StoredProjectNames == {r.name : r \in Projects}

\* The program a call named.
Named(call) ==
    get_kiln_program(call.args.kiln_name, call.args.program_name).value

\* C13 as claimed: get_project returns the firings of a project in the order
\* of the successful add_project_firing calls, the i-th comment and the i-th
\* program being those of the i-th call.
C13_AsClaimed ==
    \A name \in StoredProjectNames :
        LET got  == Fetched(name)
            mine == FiringCalls(name)
        IN  /\ Len(got.firings) = Len(mine)
            /\ Len(got.firing_comments) = Len(mine)
            /\ \A i \in 1..Len(mine) :
                  /\ got.firing_comments[i] = mine[i].args.comment
                  /\ got.firings[i] = Named(mine[i])

\* C13, what the code does: get_project returns one (comment, program) pair
\* for each successful add_project_firing call on the project, every comment paired
\* with the program its call named, in ascending order of the programs'
\* sequence ids; that is the order of the calls when every call named a
\* program of a larger sequence id than the call before.
C13_BySequenceId ==
    \A name \in StoredProjectNames :
        LET got  == Fetched(name)
            mine == FiringCalls(name)
            n    == Len(mine)
        IN  /\ Len(got.firings) = n
            /\ Len(got.firing_comments) = n
            /\ \E at \in [1..n -> 1..n] :
                  /\ \A i, j \in 1..n : at[i] = at[j] => i = j
                  /\ \A i \in 1..n :
                        /\ got.firing_comments[at[i]] = mine[i].args.comment
                        /\ got.firings[at[i]] = Named(mine[i])
            /\ \A i \in 1..(n - 1) :
                  got.firings[i].sequence.id <= got.firings[i + 1].sequence.id
            /\ (\A i \in 1..(n - 1) :
                   Named(mine[i]).sequence.id < Named(mine[i + 1]).sequence.id)
                  => \A i \in 1..n :
                        /\ got.firing_comments[i] = mine[i].args.comment
                        /\ got.firings[i] = Named(mine[i])

\* Two firings were added to one project with different comments, the second
\* naming a program of a smaller sequence id than the first.
C13_Witness ==
    \E name \in StoredProjectNames :
        LET mine == FiringCalls(name)
        IN  /\ Len(mine) = 2
            /\ mine[1].args.comment # mine[2].args.comment
            /\ Named(mine[2]).sequence.id < Named(mine[1]).sequence.id
            /\ ret.op = "add_project_firing"
            /\ ret.err = "Ok"
            /\ ret.args.project.name = name

\* C14: add_project_firing fails with NoSuchProgram((kiln name, program name))
\* when the program does not resolve; otherwise with NoSuchName(project name)
\* when no stored project has the handle's name; otherwise with
\* InconsistentProject(project name) when the stored project's id is not the
\* handle's; each time without inserting a Project_firings row.  Otherwise it
\* returns Ok and inserts exactly one row, which links the handle's project id
\* to the resolved sequence with the comment given.
C14_ChecksInOrder ==
    [][ret'.op = "add_project_firing" =>
        LET a     == ret'.args
            named == {r \in Projects : r.name = a.project.name}
        IN  IF ~Resolves(a.kiln_name, a.program_name)
            THEN /\ ret'.err = "NoSuchProgram"
                 /\ ret'.val = <<a.kiln_name, a.program_name>>
                 /\ Project_firings' = Project_firings
            ELSE IF named = {}
            THEN /\ ret'.err = "NoSuchName"
                 /\ ret'.val = a.project.name
                 /\ Project_firings' = Project_firings
            ELSE IF \A r \in named : r.id # a.project.id
            THEN /\ ret'.err = "InconsistentProject"
                 /\ ret'.val = a.project.name
                 /\ Project_firings' = Project_firings
            ELSE /\ ret'.err = "Ok"
                 /\ Project_firings \subseteq Project_firings'
                 /\ Cardinality(Project_firings') = Cardinality(Project_firings) + 1
                 /\ \A l \in Project_firings' \ Project_firings :
                       /\ l.project_id = a.project.id
                       /\ l.comment = a.comment
                       /\ \E q \in Firing_sequences, kiln \in Kilns :
                             /\ q.id = l.firing_sequence_id
                             /\ q.kiln_id = kiln.id
                             /\ q.name = a.program_name
                             /\ kiln.name = a.kiln_name]_vars

\* The call was refused for its program while its handle was wrong too: the
\* handle's name is a stored project's, its id is not.
C14_Witness ==
    /\ ret.op = "add_project_firing"
    /\ ret.err = "NoSuchProgram"
    /\ \E r \in Projects : r.name = ret.args.project.name /\ r.id # ret.args.project.id

\* ------------------------------------------------------------------------
\* Properties of project images (checked under SpecImages)
\* ------------------------------------------------------------------------

\* The successful add_project_image calls made on the project named name,
\* oldest first.
ImageCalls(name) ==
    LET Mine(c) == c.op = "add_project_image" /\ c.args.project.name = name
    IN  SelectSeq(calls, Mine)

\* C15: with handles the store returned, get_project lists for every project
\* exactly the images the successful add_project_image calls on it gave,
\* oldest first and by ascending image id, each with the name, caption and
\* bytes of its call and the project's id as project_id, and nothing of any
\* other project; the project a successful add_project_image returns is that
\* same project.
C15_ImagesAsAdded ==
    /\ \A name \in StoredProjectNames :
          LET got  == Fetched(name)
              mine == ImageCalls(name)
          IN  /\ Len(got.pictures) = Len(mine)
              /\ \A i \in 1..Len(mine) :
                    /\ got.pictures[i].name = mine[i].args.image_name
                    /\ got.pictures[i].description = mine[i].args.description
                    /\ got.pictures[i].contents = mine[i].args.image_data
                    /\ got.pictures[i].project_id = got.project.id
              /\ \A i \in 1..(Len(mine) - 1) :
                    got.pictures[i].id < got.pictures[i + 1].id
    /\ (ret.op = "add_project_image" /\ ret.err = "Ok")
          => ret.val = Fetched(ret.args.project.name)

\* The second project stored got a second image whose caption and bytes
\* differ from those of its first.
C15_Witness ==
    /\ ret.op = "add_project_image"
    /\ ret.err = "Ok"
    /\ ret.val.project.id = 2
    /\ Len(ret.val.pictures) = 2
    /\ ret.val.pictures[1].contents # ret.val.pictures[2].contents
    /\ ret.val.pictures[1].description # ret.val.pictures[2].description

\* ------------------------------------------------------------------------
\* Properties of editing in memory (checked under SpecProjectEdit and
\* SpecProgramEdit)
\* ------------------------------------------------------------------------

\* C16: a KilnProject has as many firing comments as firings, when it is new
\* and after every add_firing, insert_firing and delete_firing, whatever the
\* index and whether the call succeeded or failed.
C16_LockStep ==
    Len(kiln_project.firing_comments) = Len(kiln_project.firings)

\* A delete_firing succeeded on a project of two firings.
C16_Witness ==
    /\ ret.op = "delete_firing"
    /\ ret.err = "Ok"
    /\ Len(kiln_project.firings) = 1

\* The call returned Ok or InvalidIndex(n), the latter exactly when out holds,
\* and then left the held objects as they were.
InvalidIndexIff(n, out) ==
    /\ ret'.err = IF out THEN "InvalidIndex" ELSE "Ok"
    /\ out => /\ ret'.val = n
              /\ kiln_program' = kiln_program
              /\ kiln_project' = kiln_project

\* C17: remove_step(n) returns InvalidIndex(n) exactly when n >= len and
\* insert_step(s, n) exactly when n > len, and a call that fails leaves the
\* step list as it was.
C17_StepIndexChecked ==
    [][/\ ret'.op = "remove_step" =>
            InvalidIndexIff(ret'.args[1],
                            ret'.args[1] >= Len(kiln_program.steps))
       /\ ret'.op = "insert_step" =>
            InvalidIndexIff(ret'.args[2],
                            ret'.args[2] > Len(kiln_program.steps))]_vars

\* An insert_step one past the end of a program that has steps was refused.
C17_Witness ==
    /\ ret.op = "insert_step"
    /\ ret.err = "InvalidIndex"
    /\ ret.args[2] = Len(kiln_program.steps) + 1
    /\ Len(kiln_program.steps) >= 1

\* C18: delete_firing(n) and delete_picture(n) return InvalidIndex(n) exactly
\* when n >= the length of the firing list and of the picture list,
\* insert_firing(.., n) and insert_picture(.., n) exactly when n > that
\* length, and a call that fails leaves comments, firings and pictures as
\* they were.
C18_ProjectIndexChecked ==
    [][/\ ret'.op = "delete_firing" =>
            InvalidIndexIff(ret'.args[1],
                            ret'.args[1] >= Len(kiln_project.firings))
       /\ ret'.op = "insert_firing" =>
            InvalidIndexIff(ret'.args[3],
                            ret'.args[3] > Len(kiln_project.firings))
       /\ ret'.op = "delete_picture" =>
            InvalidIndexIff(ret'.args[1],
                            ret'.args[1] >= Len(kiln_project.pictures))
       /\ ret'.op = "insert_picture" =>
            InvalidIndexIff(ret'.args[2],
                            ret'.args[2] > Len(kiln_project.pictures))]_vars

\* A picture was inserted at the end of a picture list that is shorter than
\* the firing list, at an index insert_firing would have taken too.
C18_Witness ==
    /\ ret.op = "insert_picture"
    /\ ret.err = "Ok"
    /\ ret.args[2] = 1
    /\ Len(kiln_project.pictures) = 2
    /\ Len(kiln_project.firings) = 1

\* C19: a successful remove_step(i) leaves the old steps without the one at
\* i, the others in their order; a successful insert_step(s, i) leaves the
\* old steps before i, then s, then the old steps from i on; insert_step(s,
\* len) leaves what add_step(s) leaves, the old steps followed by s.
C19_StepListEdited ==
    [][LET old == kiln_program.steps
           new == kiln_program'.steps
       IN  /\ (ret'.op = "remove_step" /\ ret'.err = "Ok") =>
                 LET i == ret'.args[1]
                 IN  /\ Len(new) = Len(old) - 1
                     /\ \A j \in 1..i : new[j] = old[j]
                     /\ \A j \in (i + 1)..Len(new) : new[j] = old[j + 1]
           /\ (ret'.op = "insert_step" /\ ret'.err = "Ok") =>
                 LET i == ret'.args[2]
                 IN  /\ Len(new) = Len(old) + 1
                     /\ \A j \in 1..i : new[j] = old[j]
                     /\ new[i + 1] = ret'.args[1]
                     /\ \A j \in (i + 2)..Len(new) : new[j] = old[j - 1]
                     /\ i = Len(old) => new = Append(old, ret'.args[1])
           /\ ret'.op = "add_step" => new = Append(old, ret'.args[1])
           /\ kiln_program'.kiln = kiln_program.kiln
           /\ kiln_program'.sequence = kiln_program.sequence]_vars

\* A step was inserted between two steps that differ from it and from each
\* other.
C19_Witness ==
    /\ ret.op = "insert_step"
    /\ ret.err = "Ok"
    /\ ret.args[2] = 1
    /\ Len(kiln_program.steps) = 3
    /\ kiln_program.steps[1] # kiln_program.steps[2]
    /\ kiln_program.steps[2] # kiln_program.steps[3]
    /\ kiln_program.steps[1] # kiln_program.steps[3]

\* ------------------------------------------------------------------------
\* Properties of opening the database (checked under SpecOpen)
\* ------------------------------------------------------------------------

SixTables ==
    {"Kilns", "Firing_sequences", "Firing_steps",
     "Projects", "Project_firings", "Project_images"}

\* C20 as claimed: KilnDatabase::new on a store that already holds the six
\* tables succeeds, creates nothing and leaves every row as it was, however
\* often the store is opened.
C20_AsClaimed ==
    [][(ret'.op = "new" /\ SixTables \subseteq sqlite_schema)
          => /\ ret'.err = "Ok"
             /\ sqlite_schema' = sqlite_schema
             /\ store' = store]_vars

\* C20, what the code does: KilnDatabase::new on a store that already holds
\* the six tables returns SqlError, from the CREATE TABLE of Project_images,
\* and leaves the tables and their rows as they were.
C20_ReopenFails ==
    [][(ret'.op = "new" /\ SixTables \subseteq sqlite_schema)
          => /\ ret'.err = "SqlError"
             /\ sqlite_schema' = sqlite_schema
             /\ store' = store]_vars

\* The store was opened again, and refused, when it held a kiln and a program.
C20_Witness ==
    /\ ret.op = "new"
    /\ ret.err = "SqlError"
    /\ Kilns # {}
    /\ Firing_sequences # {}

\* ------------------------------------------------------------------------
\* The ramp-rate encoding
\* ------------------------------------------------------------------------

\* FiringStep::set_ramp_rate
set_ramp_rate(step, new_rate) ==
    [step EXCEPT !.ramp_rate = IF new_rate.tag = "DegPerSec"
                               THEN U32AsI32(new_rate.n)
                               ELSE -1]

\* Rates from both ends and the middle of the u32 range: 0, 300, 2^31 - 1,
\* 2^31 and 2^32 - 1.
RampValues ==
    {U32(0, 0), U32(0, 300),
     U32(Limb \div 2 - 1, Limb - 1), U32(Limb \div 2, 0), U32(Limb - 1, Limb - 1)}

RampRates == {AFAP} \cup {DegPerSec(n) : n \in RampValues}

\* FiringStep::new with a rate, then add_step of the new step to the held
\* program.
ProgramNewStep(rate) ==
    EditProgram("FiringStep::new", <<rate>>,
                [result  |-> Ok(<<>>),
                 program |-> add_step(kiln_program,
                                      FiringStep_new(0, 0, rate, 1000, 30))])

\* set_ramp_rate on the n-th step the caller holds.
ProgramSetRampRate(n, rate) ==
    /\ n \in 1..Len(kiln_program.steps)
    /\ EditProgram("set_ramp_rate", <<n, rate>>,
                   [result  |-> Ok(<<>>),
                    program |-> [kiln_program EXCEPT
                                    !.steps[n] = set_ramp_rate(@, rate)]])

\* One-step lists, one for every rate.
RampStepLists == {<<FiringStep_new(0, 0, rate, 1000, 30)>> : rate \in RampRates}

\* Steps built and changed in memory, and steps written to one program of
\* the store.
NextRampRate ==
    \/ Creates({<<83>>}, {"d1"}, {"d1"})
    \/ Replaces(StoredHeaders, RampStepLists)
    \/ \E rate \in RampRates :
          /\ Len(kiln_program.steps) < 1
          /\ ProgramNewStep(rate)
    \/ \E rate \in RampRates : ProgramSetRampRate(1, rate)

SpecRampRate == Init /\ [][NextRampRate]_vars

\* The rate has its top bit set: n >= 2^31.
SignBit(rate) == rate.tag = "DegPerSec" /\ rate.n[1] >= Limb \div 2

\* What FiringStep::new and set_ramp_rate were last called with, and the
\* step they produced.
RateCalled == ret.op \in {"FiringStep::new", "set_ramp_rate"}

RateGiven == ret.args[Len(ret.args)]

StepMade == kiln_program.steps[Len(kiln_program.steps)]

\* The steps get_kiln_program returns for the program just replaced.
StepsFetched ==
    get_kiln_program(ret.args.kiln.name, ret.args.sequence.name).value.steps

\* C21: the ramp-rate encoding round-trips for every u32 n: a step built by
\* FiringStep::new with DegPerSec(n), or given DegPerSec(n) by set_ramp_rate,
\* reads back DegPerSec(n); AFAP reads back AFAP; and a step written by
\* update_kiln_program reads back from get_kiln_program the rate it was
\* built with.
C21_AsClaimed ==
    /\ RateCalled => ramp_rate(StepMade) = RateGiven
    /\ UpdateOk =>
          \A rate \in RampRates : \A i \in 1..Len(ret.args.steps) :
              ret.args.steps[i] = FiringStep_new(0, 0, rate, 1000, 30)
                  => ramp_rate(StepsFetched[i]) = rate

\* C21, as the code has it: the round trip holds for AFAP and for every
\* n < 2^31, DegPerSec(0) never reads as AFAP, and DegPerSec(n) with
\* n >= 2^31 reads back as AFAP, in memory and through the store.
C21_RoundTripBelowSignBit ==
    /\ RateCalled =>
          ramp_rate(StepMade) = IF SignBit(RateGiven) THEN AFAP ELSE RateGiven
    /\ UpdateOk =>
          \A rate \in RampRates : \A i \in 1..Len(ret.args.steps) :
              ret.args.steps[i] = FiringStep_new(0, 0, rate, 1000, 30)
                  => ramp_rate(StepsFetched[i])
                        = IF SignBit(rate) THEN AFAP ELSE rate

\* set_ramp_rate was given DegPerSec(2^31) on a step that held DegPerSec(0).
C21_Witness ==
    /\ ret.op = "set_ramp_rate"
    /\ RateGiven = DegPerSec(U32(Limb \div 2, 0))
    /\ ramp_rate(StepMade) = AFAP

\* ------------------------------------------------------------------------
\* Properties of add_project (checked under SpecImages)
\* ------------------------------------------------------------------------

\* The project tables after a step.
ProjectTablesAfter ==
    [Projects        |-> Projects',
     Project_firings |-> Project_firings',
     Project_images  |-> Project_images']

\* C22: add_project on a store that holds no project of that name inserts
\* exactly one Projects row and returns a KilnProject without firings,
\* comments or pictures whose project is the one get_project(name) returns
\* afterwards; on a store that holds the name it returns DuplicateName(name)
\* and inserts nothing.
C22_AddProject ==
    [][ret'.op = "add_project" =>
          LET name == ret'.args[1]
          IN  IF name \in {r.name : r \in Projects}
              THEN /\ ret'.err = "DuplicateName"
                   /\ ret'.val = name
                   /\ store' = store
              ELSE /\ ret'.err = "Ok"
                   /\ Projects \subseteq Projects'
                   /\ Cardinality(Projects' \ Projects) = 1
                   /\ UNCHANGED <<Kilns, Firing_sequences, Firing_steps,
                                  Project_firings, Project_images>>
                   /\ ret'.val.firings = <<>>
                   /\ ret'.val.firing_comments = <<>>
                   /\ ret'.val.pictures = <<>>
                   /\ get_project(ProjectTablesAfter, name).some
                   /\ get_project(ProjectTablesAfter, name).value.project
                         = ret'.val.project]_vars

\* A second project was added, with the description "d2", to a store that
\* held a project with a picture.
C22_Witness ==
    /\ ret.op = "add_project"
    /\ ret.err = "Ok"
    /\ ret.val.project.id = 2
    /\ ret.val.project.description = "d2"
    /\ Project_images # {}

\* ------------------------------------------------------------------------
\* Every operation that writes, with handles of any name and id
\* ------------------------------------------------------------------------

\* The one-step list of the writers' specification: an AFAP step.
ShortStepLists == {<<FiringStep_new(0, 0, AFAP, 1000, 30)>>}

\* The ids the store has handed out so far, over all six tables.
RowsEver ==
    sqlite_sequence.Kilns + sqlite_sequence.Firing_sequences
      + sqlite_sequence.Firing_steps + sqlite_sequence.Projects
      + sqlite_sequence.Project_firings + sqlite_sequence.Project_images

\* The operations that write rows, called with stored, stale and forged
\* handles alike.  The model stops the calls that can insert once MaxRows ids
\* are handed out; a replacement by the empty list stays possible.
NextWrites ==
    \/ /\ RowsEver < MaxRows
       /\ \/ Creates({<<83>>}, {"d1"}, {"d1"})
          \/ Replaces(Handles, ShortStepLists)
          \/ CreatesProjects({"d1"})
          \/ Fires(ProjectHandles, {<<83>>})
          \/ Pictures(ProjectHandles)
    \/ Replaces(Handles, {<<>>})

SpecWrites == Init /\ [][NextWrites]_vars

\* ------------------------------------------------------------------------
\* Properties of the writers under any handle (checked under SpecWrites)
\* ------------------------------------------------------------------------

\* The variants of enum DatabaseError.
DatabaseError ==
    {"SqlError", "DuplicateName", "NoSuchName", "InvalidIndex",
     "FailedDeserialization", "Unimplemented", "NoSuchProgram",
     "InconsistentProgram", "InconsistentProject"}

\* The last call was handed a project handle whose name no stored project
\* has.
UnknownProjectName ==
    /\ ret.op \in {"add_project_firing", "add_project_image"}
    /\ ret.args.project.name \notin {r.name : r \in Projects}

\* C23: every operation returns Ok or a DatabaseError value for every input
\* and every reachable state and never aborts the caller; this includes
\* add_project_image and add_project_firing called with a project handle
\* whose name matches no stored project.
C23_AsClaimed == ret.err \in {"Ok"} \cup DatabaseError

\* C23, as the code has it: the one call that aborts is add_project_image
\* with a handle whose name no stored project has, which panics after its
\* row is inserted; every other call returns Ok or a DatabaseError, and
\* add_project_firing with such a handle returns NoSuchProgram or NoSuchName.
C23_PanicsOnUnknownName ==
    /\ ret.err \notin {"Ok"} \cup DatabaseError
          <=> ret.op = "add_project_image" /\ UnknownProjectName
    /\ (ret.op = "add_project_image" /\ UnknownProjectName)
          => /\ ret.err = "Panic"
             /\ \E r \in Project_images :
                   /\ r.id = sqlite_sequence.Project_images
                   /\ r.project_id = ret.args.project.id
    /\ (ret.op = "add_project_firing" /\ UnknownProjectName)
          => ret.err \in {"NoSuchProgram", "NoSuchName"}

\* add_project_image panicked on a name that is not stored while another
\* project is, leaving a row with that project's id.
C23_Witness ==
    /\ ret.op = "add_project_image"
    /\ ret.err = "Panic"
    /\ Projects # {}
    /\ \E r \in Project_images : \E q \in Projects : r.project_id = q.id

\* The ids of the rows of a table.
IdsOf(table) == {r.id : r \in table}

\* The Project_images rows whose project_id is the id of no Projects row.
DanglingImages == {r \in Project_images : r.project_id \notin IdsOf(Projects)}

\* C24: whatever handles callers pass, stale or forged, every
\* Firing_sequences.kiln_id is the id of a Kilns row, every
\* Firing_steps.sequence_id the id of a Firing_sequences row, every
\* Project_firings row references an existing project and an existing
\* sequence, and every Project_images.project_id is the id of a Projects row.
C24_AsClaimed ==
    /\ \A s \in Firing_sequences : s.kiln_id \in IdsOf(Kilns)
    /\ \A s \in Firing_steps : s.sequence_id \in IdsOf(Firing_sequences)
    /\ \A l \in Project_firings :
          /\ l.project_id \in IdsOf(Projects)
          /\ l.firing_sequence_id \in IdsOf(Firing_sequences)
    /\ \A i \in Project_images : i.project_id \in IdsOf(Projects)

\* C24, as the code has it: sequences, steps and project firings reference
\* existing rows, while a Project_images row carries whatever id the handle
\* of its add_project_image call carried, and that call inserted it.
C24_AllButImages ==
    /\ \A s \in Firing_sequences : s.kiln_id \in IdsOf(Kilns)
    /\ \A s \in Firing_steps : s.sequence_id \in IdsOf(Firing_sequences)
    /\ \A l \in Project_firings :
          /\ l.project_id \in IdsOf(Projects)
          /\ l.firing_sequence_id \in IdsOf(Firing_sequences)
    /\ ret.op = "add_project_image"
          => \E i \in Project_images :
                /\ i.id = sqlite_sequence.Project_images
                /\ i.project_id = ret.args.project.id

\* A program's steps were replaced in a store that holds a picture of a
\* project that does not exist.
C24_Witness ==
    /\ UpdateOk
    /\ Firing_steps # {}
    /\ DanglingImages # {}

\* C25: no operation removes or modifies a row of Kilns, Firing_sequences,
\* Projects, Project_firings or Project_images; the only rows ever deleted
\* are Firing_steps rows of the program being replaced in update_kiln_program.
C25_OnlyReplacedStepsGo ==
    [][/\ Kilns \subseteq Kilns'
       /\ Firing_sequences \subseteq Firing_sequences'
       /\ Projects \subseteq Projects'
       /\ Project_firings \subseteq Project_firings'
       /\ Project_images \subseteq Project_images'
       /\ \A r \in Firing_steps \ Firing_steps' :
             /\ ret'.op = "update_kiln_program"
             /\ ret'.err = "Ok"
             /\ r.sequence_id = ret'.args.sequence.id]_vars

\* The only step there ever was went in a replacement by the empty list,
\* in a store of two programs.
C25_Witness ==
    /\ UpdateOk
    /\ ret.args.steps = <<>>
    /\ sqlite_sequence.Firing_steps = 1
    /\ Firing_steps = {}
    /\ Cardinality(Firing_sequences) = 2

\* ------------------------------------------------------------------------
\* Projects fired with programs that have steps
\* ------------------------------------------------------------------------

\* One-step lists of a caller whose step carries the made-up ids 7 and 9.
ForeignStepLists == {<<FiringStep_new(7, 9, DegPerSec(U32(0, 300)), 1250, 15)>>}

\* Programs get steps, projects get firings and a picture through the
\* handles the store returned.  The model stops the calls once
\* MaxAggregateRows ids are handed out.
NextAggregates ==
    /\ RowsEver < MaxAggregateRows
    /\ \/ Creates({<<83>>}, {"d1"}, {"d1"})
       \/ Replaces(StoredHeaders, ForeignStepLists)
       \/ CreatesProjects({"d1"})
       \/ \E project \in StoredProjectHandles, p \in ProgNames :
             AddProjectFiring(project, <<83>>, p, "Full fuse step")
       \/ \E project \in StoredProjectHandles :
             AddProjectImage(project, "final.jpg", "c1", <<>>)
       \/ \E k \in KilnNames, p \in ProgNames : GetKilnProgram(k, p)
       \/ \E name \in ProjectNames : GetProject(name)

SpecAggregates == Init /\ [][NextAggregates]_vars

\* ------------------------------------------------------------------------
\* Properties of returned programs (checked under SpecAggregates)
\* ------------------------------------------------------------------------

\* The KilnPrograms the last call handed to its caller, on their own or
\* inside a KilnProject.
ProgramsReturned ==
    IF ret.err # "Ok" THEN {}
    ELSE CASE ret.op \in {"add_kiln_program", "update_kiln_program"} ->
                {ret.val}
           [] ret.op = "get_kiln_program" ->
                IF ret.val.some THEN {ret.val.value} ELSE {}
           [] ret.op = "get_project" ->
                IF ret.val.some THEN Elements(ret.val.value.firings) ELSE {}
           [] ret.op \in {"add_project_firing", "add_project_image"} ->
                Elements(ret.val.firings)
           [] OTHER -> {}

\* C26: every KilnProgram returned by add_kiln_program, get_kiln_program or
\* update_kiln_program, or embedded in a KilnProject returned by get_project,
\* add_project_firing or add_project_image, has sequence.kiln_id equal to
\* kiln.id and every step's sequence_id equal to sequence.id, whatever ids
\* the steps of the caller's copy carried.
C26_ProgramsCohere ==
    \A program \in ProgramsReturned :
        /\ program.sequence.kiln_id = program.kiln.id
        /\ \A i \in DOMAIN program.steps :
              program.steps[i].sequence_id = program.sequence.id

\* add_project_image returned a project fired with a program whose step was
\* written from a caller's step that carried another sequence id.
C26_Witness ==
    /\ ret.op = "add_project_image"
    /\ ret.err = "Ok"
    /\ \E program \in ProgramsReturned : Len(program.steps) = 1

\* ------------------------------------------------------------------------
\* The order of a project's firings (checked under SpecFirings)
\* ------------------------------------------------------------------------

\* The Project_firings rows of the stored project of a name.
LinksOf(name) ==
    {l \in Project_firings : l.project_id = Fetched(name).project.id}

\* The pair get_kiln_program and the link's comment make for one link.
PairOf(l) ==
    LET q == CHOOSE q \in Firing_sequences : q.id = l.firing_sequence_id
        k == CHOOSE k \in Kilns : k.id = q.kiln_id
    IN  <<get_kiln_program(k.name, q.name).value, l.comment>>

\* C27: get_project returns the firings of a project ordered by ascending
\* sequence id of the linked program, not by link id, one (program, comment)
\* pair for each link, the program being what get_kiln_program returns for
\* the link's kiln name and sequence name.
C27_OrderedBySequenceId ==
    \A name \in StoredProjectNames :
        LET got   == Fetched(name)
            pairs == [i \in DOMAIN got.firings |->
                         <<got.firings[i], got.firing_comments[i]>>]
        IN  /\ Len(got.firings) = Cardinality(LinksOf(name))
            /\ Len(got.firing_comments) = Len(got.firings)
            /\ \A l \in LinksOf(name) : PairOf(l) \in Elements(pairs)
            /\ \A i \in DOMAIN pairs : \E l \in LinksOf(name) : pairs[i] = PairOf(l)
            /\ \A i \in 1..(Len(pairs) - 1) :
                  got.firings[i].sequence.id <= got.firings[i + 1].sequence.id

\* get_project returned two firings of which the first has the younger link:
\* the order of the link ids is the reverse of the order returned.
C27_Witness ==
    /\ ret.op = "get_project"
    /\ ret.err = "Ok"
    /\ ret.val.some
    /\ Len(ret.val.value.firings) = 2
    /\ \E l1, l2 \in LinksOf(ret.args[1]) :
          /\ l1.id < l2.id
          /\ ret.val.value.firing_comments = <<l2.comment, l1.comment>>
          /\ l1.comment # l2.comment
          /\ l2.firing_sequence_id < l1.firing_sequence_id

\* ------------------------------------------------------------------------
\* update_kiln_program refusing a header (checked under SpecWrites)
\* ------------------------------------------------------------------------

\* The header of the coming call has the ids and names of the stored program
\* its names resolve to, and another kiln description or sequence description.
DescriptionDiffers(h) ==
    LET current == get_kiln_program(h.kiln.name, h.sequence.name)
    IN  /\ current.some
        /\ h.kiln.id = current.value.kiln.id
        /\ h.sequence.id = current.value.sequence.id
        /\ h.sequence.kiln_id = current.value.sequence.kiln_id
        /\ \/ h.kiln.description # current.value.kiln.description
           \/ h.sequence.description # current.value.sequence.description

\* C28: update_kiln_program with a header whose ids and names match the
\* stored program but whose kiln description or sequence description differs
\* fails with InconsistentProgram and replaces no steps.
C28_DescriptionsCompared ==
    [][(/\ ret'.op = "update_kiln_program"
        /\ DescriptionDiffers([kiln     |-> ret'.args.kiln,
                               sequence |-> ret'.args.sequence]))
          => /\ ret'.err = "InconsistentProgram"
             /\ ret'.val = <<ret'.args.kiln.name, ret'.args.sequence.name>>
             /\ Firing_steps' = Firing_steps
             /\ sqlite_sequence' = sqlite_sequence]_vars

\* A call whose only difference from the stored program was the sequence
\* description was refused, and the program kept its step.
C28_Witness ==
    /\ ret.op = "update_kiln_program"
    /\ ret.err = "InconsistentProgram"
    /\ DescriptionDiffers(CalledHeader)
    /\ ret.args.kiln.description = "d1"
    /\ ret.args.sequence.description = "d2"
    /\ StepsOf(ret.args.sequence.id) # <<>>

\* C29: whenever update_kiln_program returns NoSuchProgram or
\* InconsistentProgram the whole store is as it was before the call: no row
\* of any table is added, removed or changed and no id is consumed.
C29_RefusalWritesNothing ==
    [][(/\ ret'.op = "update_kiln_program"
        /\ ret'.err \in {"NoSuchProgram", "InconsistentProgram"})
          => /\ store' = store
             /\ sqlite_sequence' = sqlite_sequence]_vars

\* A header with another sequence id than the stored one was refused while
\* the program it names holds a step.
C29_Witness ==
    /\ ret.op = "update_kiln_program"
    /\ ret.err = "InconsistentProgram"
    /\ LET current == get_kiln_program(ret.args.kiln.name, ret.args.sequence.name)
       IN  /\ current.value.sequence.id # ret.args.sequence.id
           /\ current.value.steps # <<>>

\* ------------------------------------------------------------------------
\* The ids of replaced steps (checked under SpecReplace)
\* ------------------------------------------------------------------------

\* C30: in every successful update_kiln_program the ids of the caller's steps
\* are ignored: the returned steps carry ids the store assigned, strictly
\* ascending in the caller's order and greater than every Firing_steps id
\* that ever existed in the store (no id is handed out twice), so that
\* fetching by ascending id gives the caller's order.
C30_FreshAscendingIds ==
    /\ [](\A r \in Firing_steps : r.id <= sqlite_sequence.Firing_steps)
    /\ [][/\ sqlite_sequence'.Firing_steps >= sqlite_sequence.Firing_steps
          /\ (ret'.op = "update_kiln_program" /\ ret'.err = "Ok") =>
                LET S    == ret'.args.steps
                    out  == ret'.val.steps
                    rows == OrderById({r \in Firing_steps' :
                                 r.sequence_id = ret'.args.sequence.id})
                IN  /\ Len(out) = Len(S)
                    /\ Len(rows) = Len(S)
                    /\ \A i \in 1..Len(S) :
                          /\ out[i].id > sqlite_sequence.Firing_steps
                          /\ \A r \in Firing_steps : out[i].id > r.id
                          /\ Triple(out[i]) = Triple(S[i])
                          /\ rows[i].id = out[i].id
                    /\ \A i \in 1..(Len(S) - 1) : out[i].id < out[i + 1].id]_vars

\* Two steps, the first carrying the caller's id 7, replaced an earlier step
\* and came back under the ids 2 and 3.
C30_Witness ==
    /\ UpdateOk
    /\ Len(ret.args.steps) = 2
    /\ ret.args.steps[1].id = 7
    /\ ret.val.steps[1].id = 2
    /\ ret.val.steps[2].id = 3
    /\ IdsOf(Firing_steps) = {2, 3}

\* ------------------------------------------------------------------------
\* Replacing the steps of one program among several
\* ------------------------------------------------------------------------

\* update_kiln_program with a stored header and no store error.
ReplacesStored(L) ==
    \E h \in StoredHeaders, steps \in L :
        /\ sqlite_sequence.Firing_steps + Len(steps) <= MaxStepId
        /\ UpdateKilnProgram(WithSteps(h, steps), NoFault)

\* Programs of the same name on two kilns and of two names on one kiln get
\* steps and lose them, next to a stored project.  The model stops the calls
\* that can insert once MaxFrameRows ids are handed out.
NextFrame ==
    \/ /\ RowsEver < MaxFrameRows
       /\ \/ Creates(KilnNames, {"d1"}, {"d1"})
          \/ ReplacesStored(ShortStepLists)
          \/ AddProject("p1", "d1")
    \/ ReplacesStored({<<>>})

SpecFrame == Init /\ [][NextFrame]_vars

\* C31: a successful update_kiln_program on program P changes only
\* Firing_steps rows whose sequence_id is P's sequence id: the steps of every
\* other program, on the same kiln or another, of the same name or another,
\* and all rows of Kilns, Firing_sequences, Projects, Project_firings and
\* Project_images are unchanged.
C31_OnlyOwnStepsChange ==
    [][(ret'.op = "update_kiln_program" /\ ret'.err = "Ok") =>
          /\ \A r \in (Firing_steps \ Firing_steps')
                         \cup (Firing_steps' \ Firing_steps) :
                r.sequence_id = ret'.args.sequence.id
          /\ UNCHANGED <<Kilns, Firing_sequences, Projects, Project_firings,
                         Project_images>>]_vars

\* The step of a program was replaced by a new one while the program of the
\* same name on the other kiln kept its step, in a store with a project.
C31_Witness ==
    /\ UpdateOk
    /\ Len(ret.args.steps) = 1
    /\ sqlite_sequence.Firing_steps = 3
    /\ Projects # {}
    /\ \E q \in Firing_sequences :
          /\ q.name = ret.args.sequence.name
          /\ q.kiln_id # ret.args.sequence.kiln_id
          /\ \E r \in Firing_steps : r.sequence_id = q.id /\ r.id < 3

\* ------------------------------------------------------------------------
\* What the project writers return (checked under SpecAggregates)
\* ------------------------------------------------------------------------

\* The last call was an add_project_firing or add_project_image that
\* returned Ok.
ProjectWritten ==
    ret.op \in {"add_project_firing", "add_project_image"} /\ ret.err = "Ok"

\* C32: the KilnProject a successful add_project_firing or add_project_image
\* returns is the stored state, not the caller's handle patched: it holds
\* every firing link and every image stored for that project, those added
\* earlier through other handles included, and equals what get_project(name)
\* returns right afterwards.
C32_ReturnsStoredState ==
    ProjectWritten =>
        LET name   == ret.args.project.name
            stored == CHOOSE r \in Projects : r.name = name
            links  == {l \in Project_firings : l.project_id = stored.id}
            images == {i \in Project_images : i.project_id = stored.id}
        IN  /\ Some(ret.val) = get_project(ProjectTables, name)
            /\ Len(ret.val.firings) = Cardinality(links)
            /\ \A l \in links : l.comment \in Elements(ret.val.firing_comments)
            /\ {ret.val.pictures[i].id : i \in DOMAIN ret.val.pictures}
                  = IdsOf(images)

\* add_project_image, called with an empty handle, returned the project with
\* the firing and the picture added through earlier handles and the new one.
C32_Witness ==
    /\ ret.op = "add_project_image"
    /\ ret.err = "Ok"
    /\ Len(ret.val.firings) = 1
    /\ Len(ret.val.pictures) = 2

\* ------------------------------------------------------------------------
\* add_project_image and the identity of its handle (checked under SpecWrites)
\* ------------------------------------------------------------------------

\* C33: add_project_image makes no identity check of the handle: called with
\* a handle whose name is that of a stored project and whose id is not that
\* project's id, it does not fail with InconsistentProject or NoSuchName, it
\* inserts one Project_images row whose project_id is the handle's id, and it
\* returns the project re-fetched by the handle's name.
C33_NoIdentityCheck ==
    [][(/\ ret'.op = "add_project_image"
        /\ \E r \in Projects : /\ r.name = ret'.args.project.name
                               /\ r.id # ret'.args.project.id)
          => /\ ret'.err = "Ok"
             /\ Project_images \subseteq Project_images'
             /\ Project_images' \ Project_images =
                   {[id         |-> sqlite_sequence.Project_images + 1,
                     project_id |-> ret'.args.project.id,
                     name       |-> ret'.args.image_name,
                     caption    |-> ret'.args.description,
                     contents   |-> ret'.args.image_data]}
             /\ Some(ret'.val) =
                   get_project(ProjectTablesAfter, ret'.args.project.name)
             /\ UNCHANGED <<Kilns, Firing_sequences, Firing_steps, Projects,
                            Project_firings>>]_vars

\* Project "p1" is stored under id 1; a handle named "p1" with id 2 was
\* accepted, and the project returned does not hold the picture inserted.
C33_Witness ==
    /\ ret.op = "add_project_image"
    /\ ret.err = "Ok"
    /\ ret.args.project.id = 2
    /\ ret.val.project.id = 1
    /\ ret.val.pictures = <<>>
    /\ Project_images # {}

\* ------------------------------------------------------------------------
\* Firings and link rows (checked under SpecFirings)
\* ------------------------------------------------------------------------

\* C34: for every project the firings get_project returns correspond one to
\* one to the project's stored link rows: there are as many (comment,
\* program) pairs as links, and each pair has the comment and the sequence id
\* of a link of its own, also when one program is linked several times with
\* different comments.
C34_OnePairPerLink ==
    \A name \in StoredProjectNames :
        LET got   == Fetched(name)
            links == LinksOf(name)
            n     == Len(got.firings)
        IN  /\ n = Cardinality(links)
            /\ Len(got.firing_comments) = n
            /\ \E of \in [1..n -> links] :
                  /\ \A i, j \in 1..n : of[i] = of[j] => i = j
                  /\ \A i \in 1..n :
                        /\ got.firing_comments[i] = of[i].comment
                        /\ got.firings[i].sequence.id = of[i].firing_sequence_id

\* get_project returned one program twice, under two different comments.
C34_Witness ==
    /\ ret.op = "get_project"
    /\ ret.err = "Ok"
    /\ ret.val.some
    /\ Len(ret.val.value.firings) = 2
    /\ ret.val.value.firings[1] = ret.val.value.firings[2]
    /\ ret.val.value.firing_comments[1] # ret.val.value.firing_comments[2]

\* ------------------------------------------------------------------------
\* Calls on two connections, one statement at a time
\*
\* Each connection runs its call to completion, and SQLite runs one statement
\* at a time on the database file; outside a transaction every statement
\* commits on its own, so between two statements of one call the other
\* connection may run statements of its own.
\* ------------------------------------------------------------------------

\* What the interleaved steps leave alone.
callers == <<ret, offered, calls, kiln_program, kiln_project, lib_program>>

\* A call that has returned.
Done(op, args, result) ==
    [pc |-> "done", op |-> op, args |-> args,
     err |-> result.err, val |-> result.val]

\* A connection can start a call.
Ready(c) == conn[c].pc \in {"idle", "done"}

\* A UNIQUE constraint on the name within its scope.
ConstraintFails_Unique(rows, name) == \E r \in rows : r.name = name

\* What the schema says of an INSERT of a name that rows already hold: no
\* column of any table is declared UNIQUE, so the INSERT goes through.
ConstraintFails(rows, name) == FALSE

\* add_kiln and add_project up to their count query.
CreatorCounts(c, op, name, description) ==
    LET count == IF op = "add_kiln" THEN CountKilnsNamed(name)
                                    ELSE CountProjectsNamed(name)
    IN  /\ Ready(c)
        /\ conn' = [conn EXCEPT ![c] =
              IF count # 0
              THEN Done(op, <<name, description>>, Err("DuplicateName", name))
              ELSE [pc |-> "counted", op |-> op, args |-> <<name, description>>]]
        /\ UNCHANGED <<store, callers>>

\* add_kiln_program up to its get_kiln.
CreatorFindsKiln(c, kiln_name, program_name, program_description) ==
    LET args     == <<kiln_name, program_name, program_description>>
        kiln_opt == get_kiln(kiln_name)
    IN  /\ Ready(c)
        /\ conn' = [conn EXCEPT ![c] =
              IF ~kiln_opt.some
              THEN Done("add_kiln_program", args, Err("NoSuchName", kiln_name))
              ELSE [pc |-> "found", op |-> "add_kiln_program", args |-> args,
                    kiln |-> kiln_opt.value]]
        /\ UNCHANGED <<store, callers>>

\* The count query of add_kiln_program.
CreatorCountsPrograms(c) ==
    /\ conn[c].pc = "found"
    /\ conn' = [conn EXCEPT ![c] =
          IF CountSequencesNamed(conn[c].args[2], conn[c].kiln.id) # 0
          THEN Done(@.op, @.args, Err("DuplicateName", conn[c].args[2]))
          ELSE [@ EXCEPT !.pc = "counted"]]
    /\ UNCHANGED <<store, callers>>

\* The INSERT of a creator that has passed its count query.
CreatorInserts(c) ==
    LET call == conn[c]
        op   == call.op
    IN  /\ call.pc = "counted"
        /\ UNCHANGED <<callers, Firing_steps, sqlite_schema, Project_firings,
                       Project_images>>
        /\ CASE op = "add_kiln" ->
                  IF ConstraintFails(Kilns, call.args[1])
                  THEN /\ conn' = [conn EXCEPT ![c] =
                              Done(op, call.args, Err("SqlError", "constraint"))]
                       /\ UNCHANGED <<Kilns, Firing_sequences, Projects,
                                      sqlite_sequence>>
                  ELSE /\ Kilns' = Kilns \cup
                              {[id          |-> sqlite_sequence.Kilns + 1,
                                name        |-> call.args[1],
                                description |-> call.args[2]]}
                       /\ sqlite_sequence' =
                              [sqlite_sequence EXCEPT !.Kilns = @ + 1]
                       /\ conn' = [conn EXCEPT ![c] = Done(op, call.args, Ok(<<>>))]
                       /\ UNCHANGED <<Firing_sequences, Projects>>
             [] op = "add_project" ->
                  IF ConstraintFails(Projects, call.args[1])
                  THEN /\ conn' = [conn EXCEPT ![c] =
                              Done(op, call.args, Err("SqlError", "constraint"))]
                       /\ UNCHANGED <<Kilns, Firing_sequences, Projects,
                                      sqlite_sequence>>
                  ELSE LET rowid == sqlite_sequence.Projects + 1
                       IN  /\ Projects' = Projects \cup
                                  {[id          |-> rowid,
                                    name        |-> call.args[1],
                                    description |-> call.args[2]]}
                           /\ sqlite_sequence' =
                                  [sqlite_sequence EXCEPT !.Projects = rowid]
                           /\ conn' = [conn EXCEPT ![c] =
                                  Done(op, call.args,
                                       Ok(KilnProject_new(Project_new(
                                           rowid, call.args[1], call.args[2]))))]
                           /\ UNCHANGED <<Kilns, Firing_sequences>>
             [] op = "add_kiln_program" ->
                  IF ConstraintFails({q \in Firing_sequences :
                                         q.kiln_id = call.kiln.id}, call.args[2])
                  THEN /\ conn' = [conn EXCEPT ![c] =
                              Done(op, call.args, Err("SqlError", "constraint"))]
                       /\ UNCHANGED <<Kilns, Firing_sequences, Projects,
                                      sqlite_sequence>>
                  ELSE LET program_id == sqlite_sequence.Firing_sequences + 1
                       IN  /\ Firing_sequences' = Firing_sequences \cup
                                  {NewSequenceRow(program_id, call.args[2],
                                                  call.args[3], call.kiln.id)}
                           /\ sqlite_sequence' =
                                  [sqlite_sequence EXCEPT
                                      !.Firing_sequences = program_id]
                           /\ conn' = [conn EXCEPT ![c] =
                                  Done(op, call.args,
                                       Ok(KilnProgram_new(call.kiln,
                                            FiringSequence_new(program_id,
                                                call.args[2], call.args[3],
                                                call.kiln.id))))]
                           /\ UNCHANGED <<Kilns, Projects>>

\* Two connections creating kilns, projects and programs.  The model starts
\* no creator once MaxRaceRows rows exist.
NextRace ==
    \E c \in Connections :
        \/ /\ RowsEver < MaxRaceRows
           /\ \/ \E name \in KilnNames : CreatorCounts(c, "add_kiln", name, "d1")
              \/ \E name \in ProjectNames :
                    CreatorCounts(c, "add_project", name, "d1")
              \/ \E k \in KilnNames, p \in ProgNames :
                    CreatorFindsKiln(c, k, p, "d1")
        \/ CreatorCountsPrograms(c)
        \/ CreatorInserts(c)

SpecRace == Init /\ [][NextRace]_vars

\* ------------------------------------------------------------------------
\* Properties of creators on two connections (checked under SpecRace)
\* ------------------------------------------------------------------------

\* The rows that share the name and the uniqueness scope of a creator call,
\* in the tables given.
SameName(call, kilns, projects, sequences) ==
    CASE call.op = "add_kiln" -> {r \in kilns : r.name = call.args[1]}
      [] call.op = "add_project" -> {r \in projects : r.name = call.args[1]}
      [] call.op = "add_kiln_program" ->
            {r \in sequences : r.name = call.args[2] /\ r.kiln_id = call.kiln.id}

\* C35: the uniqueness check is check-then-act and not atomic: a creator
\* (add_kiln, add_project, add_kiln_program) that has passed its count query
\* inserts its row and returns Ok whatever the other connection has inserted
\* since, so that two creators of one name that both pass the check both
\* insert, leaving two rows of the same name in one scope without either
\* call returning DuplicateName.
C35_CheckThenAct ==
    [][\A c \in Connections :
          (conn[c].pc = "counted" /\ conn'[c].pc = "done") =>
              /\ conn'[c].err = "Ok"
              /\ Cardinality(SameName(conn[c], Kilns', Projects',
                                      Firing_sequences'))
                    = Cardinality(SameName(conn[c], Kilns, Projects,
                                           Firing_sequences)) + 1]_vars

\* Both connections have returned Ok from add_kiln_program with the same
\* names, and the store holds two kilns of one name, two projects of one
\* name and two programs of one name on one kiln.
C35_Witness ==
    /\ \A c \in Connections :
          /\ conn[c].pc = "done"
          /\ conn[c].op = "add_kiln_program"
          /\ conn[c].err = "Ok"
    /\ conn[1].args = conn[2].args
    /\ \E a, b \in Kilns : a.id # b.id /\ a.name = b.name
    /\ \E a, b \in Projects : a.id # b.id /\ a.name = b.name
    /\ \E a, b \in Firing_sequences :
          a.id # b.id /\ a.name = b.name /\ a.kiln_id = b.kiln_id

\* ------------------------------------------------------------------------
\* A fetch on one connection while the other replaces the steps
\*
\* update_kiln_program runs its DELETE and INSERTs inside a transaction: the
\* rows it writes are in conn[c].txn until COMMIT puts them in the file.
\* ------------------------------------------------------------------------

\* The connection that writes and the connection that reads.
Writer == 1

Reader == 2

\* A transaction is open on the connection.
InTxn(c) == conn[c].pc = "txn"

\* A statement of one connection reading rows another connection has
\* written and not yet committed.
Visible_Uncommitted(committed, c) ==
    IF \E o \in Connections \ {c} : InTxn(o)
    THEN conn[CHOOSE o \in Connections \ {c} : InTxn(o)].txn.rows
    ELSE committed

\* The rows of Firing_steps a statement of connection c reads: SQLite shows
\* a connection the committed rows only, never another connection's open
\* transaction.
Visible(committed, c) == committed

\* update_kiln_program up to the opening of its transaction and the DELETE:
\* the lookup, the comparison, BEGIN and "DELETE ... WHERE id in(...)".
UpdateDeletes(c, program) ==
    LET kiln    == program.kiln
        seq     == program.sequence
        current == get_kiln_program(kiln.name, seq.name)
        args    == [kiln |-> kiln, sequence |-> seq, steps |-> program.steps]
    IN  /\ Ready(c)
        /\ UNCHANGED <<store, callers>>
        /\ conn' = [conn EXCEPT ![c] =
              IF ~current.some
              THEN Done("update_kiln_program", args, NoSuchProgram(kiln, seq))
              ELSE IF ~Consistent(kiln, seq, current.value)
              THEN Done("update_kiln_program", args,
                        Err("InconsistentProgram", <<kiln.name, seq.name>>))
              ELSE LET existing_steps == current.value.steps
                       ids == {existing_steps[i].id : i \in DOMAIN existing_steps}
                   IN  [pc      |-> "txn",
                        op      |-> "update_kiln_program",
                        args    |-> args,
                        n       |-> 0,
                        txn     |-> DeleteSteps(StepsTable, ids),
                        program |-> KilnProgram_new(kiln, seq)]]

\* One turn of the insert loop inside the transaction.
UpdateInserts(c) ==
    LET call == conn[c]
        done == InsertSteps([db |-> call.txn, program |-> call.program],
                            call.args.sequence.id,
                            <<call.args.steps[call.n + 1]>>, 1)
    IN  /\ InTxn(c)
        /\ call.n < Len(call.args.steps)
        /\ conn' = [conn EXCEPT ![c] =
              [call EXCEPT !.n = @ + 1, !.txn = done.db, !.program = done.program]]
        /\ UNCHANGED <<store, callers>>

\* A project as the store holds it once the rows of Firing_steps are steps.
Restepped(project, steps) ==
    [project EXCEPT !.firings =
        [i \in DOMAIN project.firings |->
            [project.firings[i] EXCEPT
                !.steps = StepsIn(steps, project.firings[i].sequence.id)]]]

\* History: a fetch in flight keeps in seen what the committed store held
\* for it at every moment of its run.  Seeing adds what the store holds once
\* a commit has made steps the rows of Firing_steps: the step list of the
\* program for get_kiln_program, the whole project for get_project.
Seeing(call, steps) ==
    IF call.pc = "header"
    THEN [call EXCEPT !.seen = @ \cup {StepsIn(steps, call.program.sequence.id)}]
    ELSE IF call.pc \in {"root", "links"}
    THEN [call EXCEPT !.seen = @ \cup
             {Restepped(get_project(ProjectTables, call.args[1]).value, steps)}]
    ELSE call

\* COMMIT: the rows of the transaction become the rows of the file.
UpdateCommits(c) ==
    LET call == conn[c]
    IN  /\ InTxn(c)
        /\ call.n = Len(call.args.steps)
        /\ Firing_steps' = call.txn.rows
        /\ sqlite_sequence' =
              [sqlite_sequence EXCEPT !.Firing_steps = call.txn.last]
        /\ conn' = [o \in Connections |->
              IF o = c
              THEN Done(call.op, call.args, Ok(call.program))
              ELSE Seeing(conn[o], call.txn.rows)]
        /\ UNCHANGED <<Kilns, Firing_sequences, sqlite_schema, project_store,
                       callers>>

\* get_kiln_program up to its first query, the join that finds the program.
FetchFindsProgram(c, kiln_name, program_name) ==
    LET found == get_kiln_program(kiln_name, program_name)
        args  == <<kiln_name, program_name>>
    IN  /\ Ready(c)
        /\ conn' = [conn EXCEPT ![c] =
              IF ~found.some
              THEN Done("get_kiln_program", args, Ok(None))
              ELSE [pc      |-> "header",
                    op      |-> "get_kiln_program",
                    args    |-> args,
                    program |-> [found.value EXCEPT !.steps = <<>>],
                    seen    |-> {found.value.steps}]]
        /\ UNCHANGED <<store, callers>>

\* The second query of get_kiln_program, the steps of the program found.
FetchReadsSteps(c) ==
    LET call == conn[c]
        steps == StepsIn(Visible(Firing_steps, c), call.program.sequence.id)
    IN  /\ call.pc = "header"
        /\ conn' = [conn EXCEPT ![c] =
              [pc   |-> "done", op |-> call.op, args |-> call.args,
               err  |-> "Ok",
               val  |-> Some([call.program EXCEPT !.steps = steps]),
               seen |-> call.seen]]
        /\ UNCHANGED <<store, callers>>

\* The step lists the writer stores: one step, and two steps that differ.
ReplacementLists ==
    ShortStepLists
      \cup {<<FiringStep_new(7, 9, DegPerSec(U32(0, 300)), 1250, 15),
              FiringStep_new(0, 0, AFAP, 1000, 30)>>}

\* One kiln and its programs are created by whole calls; the writer replaces
\* steps and the reader fetches programs, statement by statement.
NextIsolation ==
    \/ Creates({<<83>>}, {"d1"}, {"d1"})
    \/ \E h \in StoredHeaders, steps \in ReplacementLists :
          /\ sqlite_sequence.Firing_steps + Len(steps) <= MaxStepId
          /\ UpdateDeletes(Writer, WithSteps(h, steps))
    \/ UpdateInserts(Writer)
    \/ UpdateCommits(Writer)
    \/ \E p \in ProgNames : FetchFindsProgram(Reader, <<83>>, p)
    \/ FetchReadsSteps(Reader)

SpecIsolation == Init /\ [][NextIsolation]_vars

\* The fetches of connection c that have returned a program.
FetchedOn(c) ==
    /\ conn[c].pc = "done"
    /\ conn[c].op = "get_kiln_program"
    /\ conn[c].val.some

\* C37: a get_kiln_program that runs while update_kiln_program replaces the
\* steps of the same program returns a complete committed step list, the one
\* before the replacement or the one after it: never the rows of the open
\* transaction (the emptied list, a part of the new one) and never a mix.
C37_WholeListOnly ==
    \A c \in Connections :
        FetchedOn(c) => conn[c].val.value.steps \in conn[c].seen

\* A fetch found the program while it had one step, the two-step replacement
\* was committed before its steps query, and it returned the two new steps.
C37_Witness ==
    /\ FetchedOn(Reader)
    /\ Cardinality(conn[Reader].seen) = 2
    /\ \E old \in conn[Reader].seen : Len(old) = 1
    /\ Len(conn[Reader].val.value.steps) = 2
    /\ conn[Writer].pc = "done"
    /\ conn[Writer].err = "Ok"

\* ------------------------------------------------------------------------
\* get_project on one connection while the other commits writes
\*
\* get_project runs its queries one after the other, each in auto-commit
\* mode: the project row, the links, one get_kiln_program for each link, the
\* images.  The steps of a program do not change between the two queries of
\* one get_kiln_program unless a replacement commits there, and then the
\* fetch returns the header, which no call changes, with the steps read
\* after the commit: the model runs each get_kiln_program at its steps query.
\* ------------------------------------------------------------------------

\* A fetch in flight after a commit that left the project tables as db.
SeeingProject(call, db) ==
    IF call.pc \in {"root", "links"}
    THEN [call EXCEPT !.seen = @ \cup {get_project(db, call.args[1]).value}]
    ELSE call

\* add_project_firing on connection c; its INSERT is its only write.
WriterFires(c, project, kiln_name, program_name, comment) ==
    LET args    == [project      |-> project.project,
                    kiln_name    |-> kiln_name,
                    program_name |-> program_name,
                    comment      |-> comment]
        checked == add_project_firing_checks(project, kiln_name, program_name)
        rowid   == sqlite_sequence.Project_firings + 1
        row     == [id                 |-> rowid,
                    project_id         |->
                        IntegerAffinity(to_string(project.project.id)),
                    firing_sequence_id |->
                        IntegerAffinity(to_string(checked.val.sequence.id)),
                    comment            |-> comment]
        after   == [ProjectTables EXCEPT !.Project_firings = @ \cup {row}]
    IN  /\ Ready(c)
        /\ UNCHANGED callers
        /\ IF checked.err # "Ok"
           THEN /\ conn' = [conn EXCEPT ![c] =
                               Done("add_project_firing", args, checked)]
                /\ UNCHANGED store
           ELSE /\ Project_firings' = after.Project_firings
                /\ sqlite_sequence' =
                      [sqlite_sequence EXCEPT !.Project_firings = rowid]
                /\ UNCHANGED <<Kilns, Firing_sequences, Firing_steps,
                               sqlite_schema, Projects, Project_images>>
                /\ conn' = [o \in Connections |->
                      IF o = c
                      THEN Done("add_project_firing", args,
                                Ok(updated_project(after, project).value))
                      ELSE SeeingProject(conn[o], after)]

\* add_project_image on connection c with a handle the store returned.
WriterPictures(c, project, image_name, description, image_data) ==
    LET args  == [project     |-> project.project,
                  image_name  |-> image_name,
                  description |-> description,
                  image_data  |-> image_data]
        rowid == sqlite_sequence.Project_images + 1
        row   == [id         |-> rowid,
                  project_id |-> image_project_id(project),
                  name       |-> image_name,
                  caption    |-> description,
                  contents   |-> image_data]
        after == [ProjectTables EXCEPT !.Project_images = @ \cup {row}]
    IN  /\ Ready(c)
        /\ UNCHANGED callers
        /\ Project_images' = after.Project_images
        /\ sqlite_sequence' = [sqlite_sequence EXCEPT !.Project_images = rowid]
        /\ UNCHANGED <<Kilns, Firing_sequences, Firing_steps, sqlite_schema,
                       Projects, Project_firings>>
        /\ conn' = [o \in Connections |->
              IF o = c
              THEN Done("add_project_image", args,
                        Ok(updated_project(after, project).value))
              ELSE SeeingProject(conn[o], after)]

\* get_project up to its first query, the row of the project.
ProjectFindsRow(c, name) ==
    LET root_rows == OrderById({r \in Projects : r.name = name})
        row       == root_rows[1]
    IN  /\ Ready(c)
        /\ UNCHANGED <<store, callers>>
        /\ conn' = [conn EXCEPT ![c] =
              IF root_rows = <<>>
              THEN Done("get_project", <<name>>, Ok(None))
              ELSE [pc           |-> "root",
                    op           |-> "get_project",
                    args         |-> <<name>>,
                    full_project |-> KilnProject_new(
                        Project_new(row.id, row.name, row.description)),
                    seen         |-> {get_project(ProjectTables, name).value}]]

\* The links query of get_project_firing_steps.
ProjectReadsLinks(c) ==
    LET call == conn[c]
    IN  /\ call.pc = "root"
        /\ UNCHANGED <<store, callers>>
        /\ conn' = [conn EXCEPT ![c] =
              [pc             |-> "links",
               op             |-> call.op,
               args           |-> call.args,
               full_project   |-> call.full_project,
               names_comments |-> names_comments(ProjectTables, call.full_project),
               result         |-> <<>>,
               seen           |-> call.seen]]

\* One turn of the loop over names_comments: the program of the next link.
ProjectReadsProgram(c) ==
    LET call == conn[c]
        next  == call.names_comments[Len(call.result) + 1]
        found == get_kiln_program(next[1], next[2]).value
        pgm   == [found EXCEPT !.steps =
                     StepsIn(Visible(Firing_steps, c), found.sequence.id)]
    IN  /\ call.pc = "links"
        /\ Len(call.result) < Len(call.names_comments)
        /\ UNCHANGED <<store, callers>>
        /\ conn' = [conn EXCEPT ![c] =
              [call EXCEPT !.result = Append(@, <<pgm, next[3]>>)]]

\* The firings folded in, the images query and the pictures folded in.
ProjectReadsImages(c) ==
    LET call   == conn[c]
        fired  == FoldFirings(call.full_project, call.result, Len(call.result))
        images == get_project_images(ProjectTables, fired)
    IN  /\ call.pc = "links"
        /\ Len(call.result) = Len(call.names_comments)
        /\ UNCHANGED <<store, callers>>
        /\ conn' = [conn EXCEPT ![c] =
              [pc   |-> "done", op |-> call.op, args |-> call.args,
               err  |-> "Ok",
               val  |-> Some(FoldPictures(fired, images, Len(images))),
               seen |-> call.seen]]

\* A kiln, its programs and the projects are created by whole calls while no
\* fetch is in flight; the writer replaces steps, links programs and adds
\* pictures; the reader fetches projects, query by query.  The model stops
\* the calls that insert once MaxTornRows ids are handed out.
NextTorn ==
    \/ /\ RowsEver < MaxTornRows
       /\ \/ /\ Ready(Reader)
             /\ \/ Creates({<<83>>}, {"d1"}, {"d1"})
                \/ CreatesProjects({"d1"})
          \/ \E h \in StoredHeaders, steps \in ShortStepLists :
                UpdateDeletes(Writer, WithSteps(h, steps))
          \/ \E project \in StoredProjectHandles, p \in ProgNames :
                WriterFires(Writer, project, <<83>>, p, "Full fuse step")
          \/ \E project \in StoredProjectHandles :
                WriterPictures(Writer, project, "final.jpg", "c1", <<>>)
    \/ UpdateInserts(Writer)
    \/ UpdateCommits(Writer)
    \/ \E name \in ProjectNames : ProjectFindsRow(Reader, name)
    \/ ProjectReadsLinks(Reader)
    \/ ProjectReadsProgram(Reader)
    \/ ProjectReadsImages(Reader)

SpecTorn == Init /\ [][NextTorn]_vars

\* The get_project calls of connection c that have returned a project.
ProjectFetchedOn(c) ==
    /\ conn[c].pc = "done"
    /\ conn[c].op = "get_project"
    /\ conn[c].val.some

\* C36: get_project is not atomic across its stages.  Each part of what it
\* returns (the project row, the comments of the links, each program, the
\* pictures) is what the store held at some moment of the call, and the
\* whole is what the store held when no write was committed during the call;
\* nothing more ties the parts together, so the whole can be a project the
\* store held at no moment (C36_Witness).
C36_EachStageItsOwnMoment ==
    \A c \in Connections :
        ProjectFetchedOn(c) =>
            LET got  == conn[c].val.value
                seen == conn[c].seen
            IN  /\ \E was \in seen : was.project = got.project
                /\ \E was \in seen : was.firing_comments = got.firing_comments
                /\ \A i \in DOMAIN got.firings :
                      \E was \in seen : \E j \in DOMAIN was.firings :
                          was.firings[j] = got.firings[i]
                /\ \E was \in seen : was.pictures = got.pictures
                /\ Cardinality(seen) = 1 => got \in seen

\* A torn read: a get_project has returned a project that the store held at
\* no moment between the start of the call and its end.
C36_Witness ==
    /\ ProjectFetchedOn(Reader)
    /\ conn[Reader].val.value \notin conn[Reader].seen

\* The tear by a step replacement: one program linked twice comes back with
\* two different step lists.
TornBySteps ==
    /\ ProjectFetchedOn(Reader)
    /\ \E i, j \in DOMAIN conn[Reader].val.value.firings :
          LET firings == conn[Reader].val.value.firings
          IN  /\ firings[i].sequence.id = firings[j].sequence.id
              /\ firings[i].steps # firings[j].steps

\* The tear by additions: the picture added last is there, the firing added
\* before it is not.
TornByAdditions ==
    /\ C36_Witness
    /\ conn[Reader].val.value.firings = <<>>
    /\ conn[Reader].val.value.pictures # <<>>
    /\ \A was \in conn[Reader].seen : was.firings # <<>> \/ was.pictures = <<>>

\* ------------------------------------------------------------------------
\* Pairing of firings and comments (checked under SpecProjectEdit)
\* ------------------------------------------------------------------------

\* What firing(idx) returns for each index: the comment and the program.
Pairs(project) ==
    [i \in DOMAIN project.firings |->
        <<project.firing_comments[i], project.firings[i]>>]

\* C38: the edits of a KilnProject keep each comment with its program.
\* add_firing puts the pair it was given at the end, a successful
\* insert_firing puts the pair it was given at idx with the older pairs
\* around it in their order, a successful delete_firing takes out the pair at
\* idx, a refused call changes no pair; so the comment at an index is always
\* the one that came in the same call as the program at that index.
\* add_picture, insert_picture and delete_picture leave both lists as they
\* were.
C38_PairsKept ==
    [][LET old == Pairs(kiln_project)
           new == Pairs(kiln_project')
           ok  == ret'.err = "Ok"
       IN  /\ Len(kiln_project'.firing_comments) = Len(kiln_project'.firings)
           /\ ret'.op = "add_firing" =>
                 new = Append(old, <<ret'.args[2], ret'.args[1]>>)
           /\ ret'.op = "insert_firing" =>
                 new = IF ok THEN Vec_insert(old, ret'.args[3],
                                             <<ret'.args[2], ret'.args[1]>>)
                             ELSE old
           /\ ret'.op = "delete_firing" =>
                 new = IF ok THEN Vec_remove(old, ret'.args[1]) ELSE old
           /\ ret'.op \in {"add_picture", "insert_picture", "delete_picture"} =>
                 /\ kiln_project'.firings = kiln_project.firings
                 /\ kiln_project'.firing_comments = kiln_project.firing_comments]_vars

\* A program was inserted with its comment in front of a firing whose program
\* and comment both differ from them.
C38_Witness ==
    /\ ret.op = "insert_firing"
    /\ ret.err = "Ok"
    /\ ret.args[3] = 0
    /\ Len(kiln_project.firings) = 2
    /\ Pairs(kiln_project)[1] = <<ret.args[2], ret.args[1]>>
    /\ kiln_project.firings[1] # kiln_project.firings[2]
    /\ kiln_project.firing_comments[1] # kiln_project.firing_comments[2]

\* ------------------------------------------------------------------------
\* programs::Program of the library crate
\* ------------------------------------------------------------------------

\* The steps of the tests add_2, add_4 and clear_0.
LibSteps ==
    {Step_new(1000, DegreesPerHour(300), 30),
     Step_new(1250, DegreesPerHour(300), 15),
     Step_new(1450, DegreesPerHour(500), 15),
     Step_new(900, AFAP, 30)}

LibStepLists == UNION {[1..n -> LibSteps] : n \in 0..2}

\* A call on the programs::Program the caller holds; each returns the program.
EditLibProgram(op, args, out) ==
    /\ lib_program' = out
    /\ ret' = Returned(op, args, Ok(out))
    /\ UNCHANGED <<store, offered, calls, kiln_program, kiln_project, conn>>

LibFromSteps(name, description, steps) ==
    EditLibProgram("Program::from_steps", <<name, description, steps>>,
                   Program_from_steps(name, description, steps))

LibAddStep(step) ==
    EditLibProgram("Program::add_step", <<step>>,
                   Program_add_step(lib_program, step))

LibAddSteps(steps) ==
    EditLibProgram("Program::add_steps", <<steps>>,
                   Program_add_steps(lib_program, steps))

LibClear ==
    EditLibProgram("Program::clear", <<>>, Program_clear(lib_program))

\* Editing the held programs::Program, which grows to MaxProgramSteps steps.
NextLibProgram ==
    \/ \E name \in {"testing", "small-full"}, steps \in LibStepLists :
          LibFromSteps(name, "description", steps)
    \/ \E step \in LibSteps :
          /\ Len(lib_program.program) < MaxProgramSteps
          /\ LibAddStep(step)
    \/ \E steps \in LibStepLists :
          /\ Len(lib_program.program) + Len(steps) <= MaxProgramSteps
          /\ LibAddSteps(steps)
    \/ LibClear

SpecLibProgram == Init /\ [][NextLibProgram]_vars

\* C39: add_step and add_steps of programs::Program put the new steps after
\* the old ones, old and new in their order, clear leaves no step, and none
\* of the three changes the name or the description.
C39_StepsAppendedOrCleared ==
    [][LET old == lib_program.program
           new == lib_program'.program
       IN  /\ ret'.op = "Program::add_step" =>
                 /\ Len(new) = Len(old) + 1
                 /\ \A j \in 1..Len(old) : new[j] = old[j]
                 /\ new[Len(new)] = ret'.args[1]
           /\ ret'.op = "Program::add_steps" =>
                 LET steps == ret'.args[1]
                 IN  /\ Len(new) = Len(old) + Len(steps)
                     /\ \A j \in 1..Len(old) : new[j] = old[j]
                     /\ \A j \in 1..Len(steps) : new[Len(old) + j] = steps[j]
           /\ ret'.op = "Program::clear" => Len(new) = 0
           /\ ret'.op \in {"Program::add_step", "Program::add_steps",
                           "Program::clear"} =>
                 /\ lib_program'.name = lib_program.name
                 /\ lib_program'.description = lib_program.description
                 /\ ret'.val = lib_program']_vars

\* Test add_4: two steps were added to a program of two other steps.
C39_Witness ==
    /\ ret.op = "Program::add_steps"
    /\ Len(ret.args[1]) = 2
    /\ lib_program.program =
          <<Step_new(1000, DegreesPerHour(300), 30),
            Step_new(1250, DegreesPerHour(300), 15),
            Step_new(1450, DegreesPerHour(500), 15),
            Step_new(900, AFAP, 30)>>
    /\ ret.args[1] = SubSeq(lib_program.program, 3, 4)

====
